---- MODULE Spec2Model ----
(***************************************************************************)
(* A model of rexiv2 (src/src/lib.rs), the safe Rust wrapper around the    *)
(* gexiv2 metadata engine.  The engine is an opaque collaborator: each of  *)
(* its entry points is modelled by what the FFI contract lets it return    *)
(* (a boolean, a nullable pointer, a freshly allocated buffer), chosen     *)
(* nondeterministically; the wrapper's own code is translated statement by *)
(* statement.                                                              *)
(*                                                                         *)
(* The specifications share the variables:                                 *)
(*   Spec         the lifecycle of Metadata handles and thumbnails         *)
(*                (native contexts, buffers, borrows);                     *)
(*   SpecPreview  the lifecycle of handles and their preview images;       *)
(*   SpecRational the rational tag accessors on one open handle;           *)
(*   SpecString   the string tag accessors on one open handle, with the    *)
(*                engine's string allocations tracked;                     *)
(*   SpecArray    the accessors that marshal a null-terminated array of    *)
(*                strings, with every allocation of the array tracked;     *)
(*   SpecMedia    the conversions between MediaType and its string form;   *)
(*   SpecInfo     the getters that return a string, a MediaType or a       *)
(*                TagType built from a string of the engine;               *)
(*   SpecNumeric  the numeric and rational getters on one open handle;     *)
(*   SpecGps      the GPS accessors on one open handle;                    *)
(*   SpecXmp      the process-wide XMP namespace table;                    *)
(*   SpecTags     the tags of the three domains on one open handle: set,   *)
(*                has, get, clear, the tag lists and save_to_file;         *)
(*   SpecInitialize  threads that call initialize or the tests'            *)
(*                test_setup.                                              *)
(***************************************************************************)
EXTENDS Integers, Sequences, FiniteSets, TLC

\* ------------------------------------------------------------------ bounds
\* Metadata handles that can be opened successfully in one run.
MaxHandles == 2
\* Native contexts gexiv2_metadata_new can hand out in one run.
MaxCtx == 3
\* Thumbnail buffers the engine can allocate in one run.
MaxBufs == 2
\* Preview properties the engine reports for one handle.
MaxProps == 1
\* Transient preview image objects that can be left live in one run.
MaxImgs == 1
\* Numerators and denominators range over -MaxNum..MaxNum.
MaxNum == 2
\* Bytes in a tag's string value.
MaxStrLen == 2
\* Engine-allocated strings that can be left unreleased in one run.
MaxLeaked == 1
\* Entries of an engine array before its null terminator, and bytes per entry.
MaxArrLen == 2
MaxElemLen == 1
\* Threads that call initialize or test_setup, and calls each of them makes.
MaxThreads == 2
MaxInitCalls == 2
\* The width the model gives Rust's i32; the engine's long is two bits wider.
MaxIntBits == 3

VARIABLES
    ctx,        \* native context id -> "unalloc" | "live" | "freed"
    freeCalls,  \* native context id -> number of gexiv2_metadata_free calls on it
    handle,     \* handle id -> [st: "none" | "open" | "dropped", raw: context id]
    bufs,       \* thumbnail buffer id -> "unalloc" | "live" | "freed"
    slice,      \* thumbnail buffer id -> handle the in-scope &[u8] borrows, 0: none in scope
    previews,   \* the PreviewImage descriptors in scope: [metadata: handle id, raw: property]
    imgLive,    \* transient GExiv2PreviewImage objects derived and not released
    badCall,    \* an engine call was issued on a context that was not live
    crashed,    \* the process was killed (a fault outside Rust's panics)
    rat,        \* the engine's Exif rational store: tag -> <<numerator, denominator>> or None
    strTag,     \* the engine's string store: tag -> pointer to the value's bytes, or null
    leaked,     \* strings the engine allocated for a getter that were never freed
    engineArr,  \* the array the engine's array getters answer: null or its entries' bytes
    mstr,       \* a Rust string holding a media type
    mtype,      \* a MediaType value
    longTag,    \* the engine's numeric store: tag -> the long it holds, or absent
    gps,        \* the engine's GPS information: absent, or <<longitude, latitude, altitude>>
    xmpNs,      \* the process-wide XMP namespace table: the registered <<name, prefix>> pairs
    store,      \* the tags the open handle's context holds: tag -> pointer to its value, or null
    once,       \* the tests' static INIT: Once
    thread,     \* thread id -> where the thread is in a call of initialize or test_setup
    engineInit, \* runs of gexiv2_initialize: how many began and ended, and through which call
    last        \* the last operation and what it returned

initVars == <<once, thread, engineInit>>
moreVars == <<store, initVars>>
extVars == <<mstr, mtype, longTag, gps, xmpNs, moreVars>>
otherVars == <<rat, strTag, leaked, engineArr, extVars>>
lifeVars == <<ctx, freeCalls, handle, bufs, slice, previews, imgLive, badCall, crashed>>
tagVars == <<rat>>
strVars == <<strTag, leaked>>
arrVars == <<engineArr>>
vars == <<ctx, freeCalls, handle, bufs, slice, previews, imgLive, badCall, crashed,
          rat, strTag, leaked, engineArr, mstr, mtype, longTag, gps, xmpNs, store,
          once, thread, engineInit, last>>

Handles == 1..MaxHandles
Ctxs == 1..MaxCtx
Bufs == 1..MaxBufs
Props == 1..MaxProps

\* ------------------------------------------------------ strings and pointers
\* Engine strings are null-terminated byte strings.  The bytes: 'A', the
\* two-byte lead 0xC3 and the continuation 0xA9 (0xC3 0xA9 is U+00E9).
Bytes == {65, 195, 169}
\* A pointer the engine answers: null, or the address of what it points at.
Null == [null |-> TRUE]
Ptr(x) == [null |-> FALSE, at |-> x]
SeqsUpTo(S, n) == UNION {[1..k -> S] : k \in 0..n}
ByteStrings == SeqsUpTo(Bytes, MaxStrLen)

\* Whether CStr::to_str accepts the bytes: the UTF-8 check of
\* str::from_utf8, over one-byte and two-byte sequences (Bytes holds no lead
\* byte of a longer one).
RECURSIVE Utf8Valid(_)
Utf8Valid(b) ==
    IF Len(b) = 0 THEN TRUE
    ELSE IF b[1] < 128 THEN Utf8Valid(Tail(b))
    ELSE IF b[1] >= 194 /\ b[1] <= 223
         THEN /\ Len(b) >= 2
              /\ b[2] >= 128 /\ b[2] <= 191
              /\ Utf8Valid(Tail(Tail(b)))
    ELSE FALSE

\* ----------------------------------------------------------- error results
\* Rexiv2Error and the other ways a call can end, as result kinds.
NoValue == "NoValue"
Utf8 == "Utf8"
InternalNone == "InternalNone"
InternalSome == "InternalSome"
Panic == "Panic"
Segfault == "Segfault"

\* int_bool_to_result: 0 is Err(Internal(None)), anything else Ok(()).
int_bool_to_result_always_ok(success) == "Ok"

int_bool_to_result(success) == IF success = 0 THEN InternalNone ELSE "Ok"

\* The error arm shared by the GError idiom:
\*   let err_msg = CStr::from_ptr((*err).message).to_str();
\*   Err(Internal(err_msg.ok().map(|msg| msg.to_string())))
\* With err left null the read of (*err).message is a read through a null
\* pointer: the process faults, or the read yields whatever is there.
\* The engine's answers to a call of the GError idiom: ok, and err, which is
\* left null or points at an error object holding the message bytes.
ErrMessages == {<<65>>, <<195, 169>>, <<195>>, <<65, 169>>}
GErrorAnswers ==
    {[ok |-> 1, err |-> Null]}
        \cup {[ok |-> 0, err |-> e] : e \in {Null} \cup {Ptr(msg) : msg \in ErrMessages}}

\* What reading (*err).message through a null err can yield.
NullErrReads ==
    {[res |-> Segfault], [res |-> InternalNone]}
        \cup {[res |-> InternalSome, msg |-> msg] : msg \in {e \in ErrMessages : Utf8Valid(e)}}

GErrorResultsNoMessage(answer) ==
    IF answer.ok = 1 THEN {[res |-> "Ok"]}
    ELSE IF answer.err.null THEN NullErrReads
    ELSE {[res |-> InternalNone]}

GErrorResults(answer) ==
    IF answer.ok = 1 THEN {[res |-> "Ok"]}
    ELSE IF answer.err.null THEN NullErrReads
    ELSE IF Utf8Valid(answer.err.at)
    THEN {[res |-> InternalSome, msg |-> answer.err.at]}
    ELSE {[res |-> InternalNone]}

\* ------------------------------------------------------------- media types
\* A Rust string (and the bytes of a C string): ASCII text written out, or
\* the raw bytes of a short string over Bytes.  No string of the model has
\* both forms.
Text(s) == [kind |-> "text", s |-> s]
Raw(b) == [kind |-> "raw", b |-> b]

\* impl From<&MediaType> for String: the arms of its match, variant by variant.
StringOfVariant ==
    [Bmp |-> "image/x-ms-bmp", CanonCr2 |-> "image/x-canon-cr2",
     CanonCrw |-> "image/x-canon-crw", Eps |-> "application/postscript",
     FujiRaf |-> "image/x-fuji-raf", Gif |-> "image/gif", Jp2 |-> "image/jp2",
     Jpeg |-> "image/jpeg", MinoltaMrw |-> "image/x-minolta-mrw",
     OlympusOrf |-> "image/x-olympus-orf", Png |-> "image/png",
     Psd |-> "image/x-photoshop", PanasonicRw2 |-> "image/x-panasonic-rw2",
     Tga |-> "image/targa", Tiff |-> "image/tiff"]
Variants == DOMAIN StringOfVariant

\* impl From<&str> for MediaType: the arms of its match, literal by literal.
VariantOfStr ==
    [s \in {"image/x-ms-bmp", "image/x-canon-cr2", "image/x-canon-crw",
            "application/postscript", "image/x-fuji-raf", "image/gif", "image/jp2",
            "image/jpeg", "image/x-minolta-mrw", "image/x-olympus-orf", "image/png",
            "image/x-photoshop", "image/x-panasonic-rw2", "image/targa", "image/tiff"} |->
        CASE s = "image/x-ms-bmp" -> "Bmp"
          [] s = "image/x-canon-cr2" -> "CanonCr2"
          [] s = "image/x-canon-crw" -> "CanonCrw"
          [] s = "application/postscript" -> "Eps"
          [] s = "image/x-fuji-raf" -> "FujiRaf"
          [] s = "image/gif" -> "Gif"
          [] s = "image/jp2" -> "Jp2"
          [] s = "image/jpeg" -> "Jpeg"
          [] s = "image/x-minolta-mrw" -> "MinoltaMrw"
          [] s = "image/x-olympus-orf" -> "OlympusOrf"
          [] s = "image/png" -> "Png"
          [] s = "image/x-photoshop" -> "Psd"
          [] s = "image/x-panasonic-rw2" -> "PanasonicRw2"
          [] s = "image/targa" -> "Tga"
          [] s = "image/tiff" -> "Tiff"]
RecognizedStrs == DOMAIN VariantOfStr

\* MediaType values: a named variant, or Other(String).
Named(v) == [variant |-> v]
Other(str) == [variant |-> "Other", s |-> str]

\* String::from(&MediaType): MediaType::Other(ref s) => s.clone().
StringFromMediaTypeTypo(t) ==
    IF t.variant = "Other" THEN t.s
    ELSE IF t.variant = "Jpeg" THEN Text("image/jpg")
    ELSE Text(StringOfVariant[t.variant])

StringFromMediaType(t) ==
    IF t.variant = "Other" THEN t.s ELSE Text(StringOfVariant[t.variant])

\* MediaType::from(&str): _ => MediaType::Other(t.to_string()).
MediaTypeFromStrDefault(t) ==
    IF t.kind = "text" /\ t.s \in RecognizedStrs
    THEN Named(VariantOfStr[t.s])
    ELSE Other(Text("application/octet-stream"))

MediaTypeFromStr(t) ==
    IF t.kind = "text" /\ t.s \in RecognizedStrs THEN Named(VariantOfStr[t.s]) ELSE Other(t)

\* ------------------------------------------- strings the engine keeps owning
\* The getters of this idiom borrow a string the engine owns and copy it:
\*   if c_str_val.is_null() { return Err(NoValue); }
\*   ... CStr::from_ptr(c_str_val).to_str()? ...
\* CStr::to_str views the same bytes as a &str once they pass the UTF-8 check.
StrValid(c) == c.kind = "text" \/ Utf8Valid(c.b)
EngineTexts == {"image/jpeg", "image/webp", "Rational", "String", "Frobnicate", "Subject"}
EngineStrs == {Text(x) : x \in EngineTexts} \cup {Raw(b) : b \in SeqsUpTo(Bytes, MaxElemLen)}
StrPtrs == {Null} \cup {Ptr(c) : c \in EngineStrs}
StrResultNullIsEmpty(c_str_val) ==
    IF c_str_val.null THEN [res |-> "Ok", str |-> Raw(<<>>), c_str_val |-> c_str_val]
    ELSE IF ~StrValid(c_str_val.at) THEN [res |-> Utf8, c_str_val |-> c_str_val]
    ELSE [res |-> "Ok", str |-> c_str_val.at, c_str_val |-> c_str_val]

StrResult(c_str_val) ==
    IF c_str_val.null THEN [res |-> NoValue, c_str_val |-> c_str_val]
    ELSE IF ~StrValid(c_str_val.at) THEN [res |-> Utf8, c_str_val |-> c_str_val]
    ELSE [res |-> "Ok", str |-> c_str_val.at, c_str_val |-> c_str_val]

\* What each getter makes of the &str on success: .to_string(), or
\* MediaType::from(..).
OwnedString(r) == IF r.res = "Ok" THEN [val |-> r.str] @@ r ELSE r
OwnedMediaType(r) == IF r.res = "Ok" THEN [val |-> MediaTypeFromStr(r.str)] @@ r ELSE r

\* --------------------------------------------------------------- lifecycle
Open(h) == handle[h].st = "open"
LiveCtxs == {c \in Ctxs : ctx[c] = "live"}
Borrowed(h) == (\E b \in Bufs : slice[b] = h) \/ (\E d \in previews : d.metadata = h)

\* An engine call on the context of handle h: records a call on a context that
\* is no longer live.
EngineCall(h) == badCall' = (badCall \/ ctx[handle[h].raw] # "live")

LifeInit ==
    /\ ctx = [c \in Ctxs |-> "unalloc"]
    /\ freeCalls = [c \in Ctxs |-> 0]
    /\ handle = [h \in Handles |-> [st |-> "none", raw |-> 0]]
    /\ bufs = [b \in Bufs |-> "unalloc"]
    /\ slice = [b \in Bufs |-> 0]
    /\ previews = {}
    /\ imgLive = 0
    /\ badCall = FALSE
    /\ crashed = FALSE

Constructors == {"new_from_path", "new_from_app1_segment", "new_from_buffer"}

\* Metadata::new_from_path / new_from_app1_segment / new_from_buffer.
\* pathNul: the path holds an interior zero byte (new_from_path only);
\* answer: what the engine's load step answers.
New(kind, pathNul, answer) ==
    /\ ~crashed
    /\ UNCHANGED otherVars
    /\ IF kind = "new_from_path" /\ pathNul
       THEN \* CString::new(..).unwrap() panics before anything is allocated
            /\ last' = [op |-> kind, res |-> Panic, live |-> Cardinality(LiveCtxs)]
            /\ UNCHANGED lifeVars
       ELSE \E c \in Ctxs :
            /\ ctx[c] = "unalloc"
            /\ \A c2 \in Ctxs : c2 < c => ctx[c2] # "unalloc"
            \* let metadata = gexiv2_metadata_new();
            /\ ctx' = [ctx EXCEPT ![c] = "live"]
            /\ IF answer.ok = 1
               THEN \E h \in Handles :
                    /\ handle[h].st = "none"
                    /\ \A h2 \in Handles : h2 < h => handle[h2].st # "none"
                    \* Ok(Metadata { raw: metadata })
                    /\ handle' = [handle EXCEPT ![h] = [st |-> "open", raw |-> c]]
                    /\ last' = [op |-> kind, res |-> "Ok", answer |-> answer,
                                live |-> Cardinality(LiveCtxs)]
                    /\ UNCHANGED crashed
               ELSE \E r \in GErrorResults(answer) :
                    \* if ok != 1 { ...; return Err(..) }: metadata is not freed
                    /\ last' = [op |-> kind, answer |-> answer,
                                live |-> Cardinality(LiveCtxs)] @@ r
                    /\ crashed' = (r.res = Segfault)
                    /\ UNCHANGED handle
            /\ UNCHANGED <<freeCalls, bufs, slice, previews, imgLive, badCall>>

\* impl Drop for Metadata: gexiv2_metadata_free(self.raw).  The handle leaves
\* scope only when nothing borrows it (PreviewImage<'a> holds &'a Metadata,
\* get_thumbnail's slice carries the lifetime of &self).
MetadataDropTwice(h) ==
    /\ ~crashed
    /\ UNCHANGED otherVars
    /\ Open(h)
    /\ ~Borrowed(h)
    /\ EngineCall(h)
    /\ freeCalls' = [freeCalls EXCEPT ![handle[h].raw] = @ + 1]
    /\ ctx' = [ctx EXCEPT ![handle[h].raw] = "freed"]
    /\ freeCalls[handle[h].raw] < 2
    /\ last' = [op |-> "drop", res |-> "Ok"]
    /\ UNCHANGED <<handle, bufs, slice, previews, imgLive, crashed>>

MetadataDropBorrowed(h) ==
    /\ ~crashed
    /\ UNCHANGED otherVars
    /\ Open(h)
    /\ EngineCall(h)
    /\ freeCalls' = [freeCalls EXCEPT ![handle[h].raw] = @ + 1]
    /\ ctx' = [ctx EXCEPT ![handle[h].raw] = "freed"]
    /\ handle' = [handle EXCEPT ![h].st = "dropped"]
    /\ last' = [op |-> "drop", res |-> "Ok"]
    /\ UNCHANGED <<bufs, slice, previews, imgLive, crashed>>

MetadataDrop(h) ==
    /\ ~crashed
    /\ UNCHANGED otherVars
    /\ Open(h)
    /\ ~Borrowed(h)
    /\ EngineCall(h)
    /\ freeCalls' = [freeCalls EXCEPT ![handle[h].raw] = @ + 1]
    /\ ctx' = [ctx EXCEPT ![handle[h].raw] = "freed"]
    /\ handle' = [handle EXCEPT ![h].st = "dropped"]
    /\ last' = [op |-> "drop", res |-> "Ok"]
    /\ UNCHANGED <<bufs, slice, previews, imgLive, crashed>>

\* Metadata::save_to_file(&self, path).
MetadataSaveToFile(h, pathNul, answer) ==
    /\ ~crashed
    /\ UNCHANGED otherVars
    /\ Open(h)
    /\ IF pathNul
       THEN /\ last' = [op |-> "Metadata::save_to_file", res |-> Panic]
            /\ UNCHANGED lifeVars
       ELSE /\ EngineCall(h)
            /\ \E r \in GErrorResults(answer) :
                 /\ last' = [op |-> "Metadata::save_to_file", answer |-> answer] @@ r
                 /\ crashed' = (r.res = Segfault)
            /\ UNCHANGED <<ctx, freeCalls, handle, bufs, slice, previews, imgLive>>

\* Metadata::set_thumbnail_from_file(&self, path).
SetThumbnailFromFile(h, pathNul, answer) ==
    /\ ~crashed
    /\ UNCHANGED otherVars
    /\ Open(h)
    /\ IF pathNul
       THEN /\ last' = [op |-> "set_thumbnail_from_file", res |-> Panic]
            /\ UNCHANGED lifeVars
       ELSE /\ EngineCall(h)
            /\ \E r \in GErrorResults(answer) :
                 /\ last' = [op |-> "set_thumbnail_from_file", answer |-> answer] @@ r
                 /\ crashed' = (r.res = Segfault)
            /\ UNCHANGED <<ctx, freeCalls, handle, bufs, slice, previews, imgLive>>

\* The operations of the GError idiom.
GErrorOps == Constructors \cup {"Metadata::save_to_file", "set_thumbnail_from_file"}

\* Metadata::get_thumbnail(&self) -> Option<&[u8]>.  On success the engine
\* hands over a freshly allocated buffer, which the returned slice views.
MetadataGetThumbnail(h, present) ==
    /\ ~crashed
    /\ UNCHANGED otherVars
    /\ Open(h)
    /\ EngineCall(h)
    /\ IF present
       THEN \E b \in Bufs :
            /\ bufs[b] = "unalloc"
            /\ \A b2 \in Bufs : b2 < b => bufs[b2] # "unalloc"
            /\ bufs' = [bufs EXCEPT ![b] = "live"]
            \* Some(slice::from_raw_parts_mut(data, size)), borrowed for &self
            /\ slice' = [slice EXCEPT ![b] = h]
            /\ last' = [op |-> "get_thumbnail", res |-> "Some"]
       ELSE /\ last' = [op |-> "get_thumbnail", res |-> "None"]
            /\ UNCHANGED <<bufs, slice>>
    /\ UNCHANGED <<ctx, freeCalls, handle, previews, imgLive, crashed>>

\* The slice returned by get_thumbnail goes out of scope.  A &[u8] has no
\* destructor and nothing in the wrapper frees the buffer it views.
ThumbnailEndScope(b) ==
    /\ ~crashed
    /\ UNCHANGED otherVars
    /\ slice[b] # 0
    /\ slice' = [slice EXCEPT ![b] = 0]
    /\ last' = [op |-> "thumbnail_end_scope", res |-> "Ok"]
    /\ UNCHANGED <<ctx, freeCalls, handle, bufs, previews, imgLive, badCall, crashed>>

\* Metadata::get_preview_images(&self) -> Option<Vec<PreviewImage>>.
\* isNull: the engine returns no property array; k: the properties in it.
MetadataGetPreviewImages(h, isNull, k) ==
    /\ ~crashed
    /\ UNCHANGED otherVars
    /\ Open(h)
    /\ EngineCall(h)
    /\ IF isNull
       THEN /\ last' = [op |-> "get_preview_images", res |-> "None"]
            /\ UNCHANGED previews
       ELSE \* previews.push(PreviewImage { raw: preview_prop, metadata: self })
            /\ previews' = previews \cup {[metadata |-> h, raw |-> p] : p \in 1..k}
            /\ last' = [op |-> "get_preview_images", res |-> "Some"]
    /\ UNCHANGED <<ctx, freeCalls, handle, bufs, slice, imgLive, crashed>>

\* A PreviewImage descriptor goes out of scope: it owns nothing.
PreviewEndScope(d) ==
    /\ ~crashed
    /\ UNCHANGED otherVars
    /\ d \in previews
    /\ previews' = previews \ {d}
    /\ last' = [op |-> "preview_end_scope", res |-> "Ok"]
    /\ UNCHANGED <<ctx, freeCalls, handle, bufs, slice, imgLive, badCall, crashed>>

\* An engine call through a descriptor: its properties live in the parent's
\* context, and get_data / save_to_file pass self.metadata.raw itself.
ParentLive(d) == Open(d.metadata) /\ ctx[handle[d.metadata].raw] = "live"
PreviewEngineCall(d) == badCall' = (badCall \/ ~ParentLive(d))

PreviewGetters ==
    {"PreviewImage::get_size", "PreviewImage::get_width", "PreviewImage::get_height",
     "PreviewImage::get_media_type", "PreviewImage::get_extension"}
StrGetters == {"PreviewImage::get_media_type", "PreviewImage::get_extension"}

\* PreviewImage::get_size / get_width / get_height / get_media_type / get_extension.
PreviewGet(d, op, ptr) ==
    /\ ~crashed
    /\ UNCHANGED otherVars
    /\ d \in previews
    /\ PreviewEngineCall(d)
    /\ last' = [op |-> op, parentLive |-> ParentLive(d)]
                   @@ (IF op = "PreviewImage::get_media_type" THEN OwnedMediaType(StrResult(ptr))
                       ELSE IF op = "PreviewImage::get_extension"
                       THEN OwnedString(StrResult(ptr))
                       ELSE [res |-> "Ok"])
    /\ UNCHANGED <<ctx, freeCalls, handle, bufs, slice, previews, imgLive, crashed>>

\* PreviewImage::get_data(&self): derive the image, copy its data, free it.
PreviewGetData(d, dataNull) ==
    /\ ~crashed
    /\ UNCHANGED otherVars
    /\ d \in previews
    /\ PreviewEngineCall(d)
    \* gexiv2_metadata_get_preview_image ... gexiv2_preview_image_free(image)
    /\ imgLive' = imgLive + 1 - 1
    /\ last' = [op |-> "PreviewImage::get_data", parentLive |-> ParentLive(d),
                derived |-> 1, released |-> 1,
                res |-> IF dataNull THEN NoValue ELSE "Ok"]
    /\ UNCHANGED <<ctx, freeCalls, handle, bufs, slice, previews, crashed>>

\* The size the engine reports for a property, and the byte counts
\* gexiv2_preview_image_write_file can answer (-1: its failure sentinel).
PropSize(p) == p
Written == -1..MaxProps

\* self.get_size() as libc::c_long: a u32 zero-extended into the wider long,
\* which keeps the value.
U32AsLong(size) == size

\* PreviewImage::save_to_file(&self, path).  written: what
\* gexiv2_preview_image_write_file answers.
PreviewSaveToFileSentinelOnly(d, pathNul, written) ==
    /\ ~crashed
    /\ UNCHANGED otherVars
    /\ d \in previews
    /\ PreviewEngineCall(d)
    /\ ~pathNul
    /\ imgLive' = imgLive + 1 - 1
    /\ last' = [op |-> "PreviewImage::save_to_file", parentLive |-> ParentLive(d),
                derived |-> 1, released |-> 1, written |-> written,
                size |-> PropSize(d.raw),
                res |-> IF written < 0 THEN InternalNone ELSE "Ok"]
    /\ UNCHANGED <<ctx, freeCalls, handle, bufs, slice, previews, crashed>>

PreviewSaveToFile(d, pathNul, written) ==
    /\ ~crashed
    /\ UNCHANGED otherVars
    /\ d \in previews
    /\ PreviewEngineCall(d)
    /\ IF pathNul
       THEN \* the image is derived, then CString::new(..).unwrap() panics
            /\ imgLive < MaxImgs
            /\ imgLive' = imgLive + 1
            /\ last' = [op |-> "PreviewImage::save_to_file", parentLive |-> ParentLive(d),
                        derived |-> 1, released |-> 0, res |-> Panic]
       ELSE /\ imgLive' = imgLive + 1 - 1
            /\ last' = [op |-> "PreviewImage::save_to_file", parentLive |-> ParentLive(d),
                        derived |-> 1, released |-> 1, written |-> written,
                        size |-> PropSize(d.raw),
                        res |-> LET ok == written
                                    expected == U32AsLong(PropSize(d.raw))
                                IN  IF ok # expected THEN InternalNone ELSE "Ok"]
    /\ UNCHANGED <<ctx, freeCalls, handle, bufs, slice, previews, crashed>>

PreviewOps == PreviewGetters \cup {"PreviewImage::get_data", "PreviewImage::save_to_file"}

\* Handles and thumbnails.
LifeNext ==
    \/ \E kind \in Constructors, answer \in GErrorAnswers :
         \E pathNul \in (IF kind = "new_from_path" THEN BOOLEAN ELSE {FALSE}) :
           New(kind, pathNul, answer)
    \/ \E h \in Handles : MetadataDrop(h)
    \/ \E h \in Handles, pathNul \in BOOLEAN, answer \in GErrorAnswers :
         MetadataSaveToFile(h, pathNul, answer)
    \/ \E h \in Handles, pathNul \in BOOLEAN, answer \in GErrorAnswers :
         SetThumbnailFromFile(h, pathNul, answer)
    \/ \E h \in Handles, present \in BOOLEAN : MetadataGetThumbnail(h, present)
    \/ \E b \in Bufs : ThumbnailEndScope(b)

\* Handles and preview images.
PreviewNext ==
    \/ \E kind \in Constructors, answer \in GErrorAnswers :
         \E pathNul \in (IF kind = "new_from_path" THEN BOOLEAN ELSE {FALSE}) :
           New(kind, pathNul, answer)
    \/ \E h \in Handles : MetadataDrop(h)
    \/ \E h \in Handles, isNull \in BOOLEAN, k \in 0..MaxProps :
         MetadataGetPreviewImages(h, isNull, k)
    \/ \E d \in previews : PreviewEndScope(d)
    \/ \E d \in previews, op \in PreviewGetters :
         \E ptr \in (IF op \in StrGetters THEN StrPtrs ELSE {Null}) : PreviewGet(d, op, ptr)
    \/ \E d \in previews, dataNull \in BOOLEAN : PreviewGetData(d, dataNull)
    \/ \E d \in previews, pathNul \in BOOLEAN, written \in Written :
         PreviewSaveToFile(d, pathNul, written)

\* ----------------------------------------------------- rational accessors
\* The state is one handle opened from an image without tags (the tests'
\* sample.png); rat is what its native context holds.
None == "None"
ExposureTimeTag == "Exif.Photo.ExposureTime"
ExifRatTags == {ExposureTimeTag, "Exif.Photo.ApertureValue"}
\* A tag outside the Exif domain, and a tag name with an interior zero byte.
NulTag == "Exif.Photo\\0.FNumber"
RatTags == ExifRatTags \cup {"Xmp.dc.Title", NulTag}
Nums == (0 - MaxNum)..MaxNum

TagInit == rat = [t \in ExifRatTags |-> None]

\* num_integer's gcd on i32: the non-negative greatest common divisor.
Abs(x) == IF x < 0 THEN 0 - x ELSE x
RECURSIVE Gcd(_, _)
Gcd(a, b) == IF b = 0 THEN Abs(a) ELSE Gcd(b, Abs(a) % Abs(b))

\* num_rational::Ratio::new(numer, denom): new_raw followed by reduce(),
\* which panics on a zero denominator, maps 0/d to 0/1 and n/n to 1/1,
\* divides both parts by their gcd and keeps the denominator positive.
RatioNew(numer, denom) ==
    IF denom = 0 THEN Panic
    ELSE IF numer = 0 THEN <<0, 1>>
    ELSE IF numer = denom THEN <<1, 1>>
    ELSE LET g == Gcd(numer, denom)
             n == IF numer < 0 THEN 0 - (Abs(numer) \div g) ELSE numer \div g
             d == IF denom < 0 THEN 0 - (Abs(denom) \div g) ELSE denom \div g
         IN  IF d < 0 THEN <<0 - n, 0 - d>> ELSE <<n, d>>

\* gexiv2_metadata_set_exif_tag_rational: stores the pair as given under an
\* Exif tag and answers 1; answers 0 for a tag outside the Exif domain.
EngineSetRational(tag, nom, den) == IF tag \in ExifRatTags THEN 1 ELSE 0

\* gexiv2_metadata_get_exif_tag_rational / gexiv2_metadata_get_exposure_time:
\* 1 with the stored pair written to the out-parameters, 0 when there is none.
EngineGetRational(tag) ==
    IF tag \in ExifRatTags /\ rat[tag] # None
    THEN [ok |-> 1, num |-> rat[tag][1], den |-> rat[tag][2]]
    ELSE [ok |-> 0, num |-> 0, den |-> 0]

\* The Option<Ratio<i32>> the two rational getters build from the engine's answer.
RationalResultIgnoresFlag(op, tag, got) ==
    LET r == RatioNew(got.num, IF got.ok = 0 THEN 1 ELSE got.den)
    IN  IF r = Panic
        THEN [op |-> op, tag |-> tag, res |-> Panic]
        ELSE [op |-> op, tag |-> tag, res |-> "Some", num |-> r[1], den |-> r[2]]

RationalResult(op, tag, got) ==
    IF got.ok = 0
    THEN [op |-> op, tag |-> tag, res |-> None]
    ELSE LET r == RatioNew(got.num, got.den)
         IN  IF r = Panic
             THEN [op |-> op, tag |-> tag, res |-> Panic]
             ELSE [op |-> op, tag |-> tag, res |-> "Some", num |-> r[1], den |-> r[2]]

\* Metadata::set_tag_rational(&self, tag, value).
SetTagRational(tag, numer, denom) ==
    /\ IF tag = NulTag
       THEN /\ last' = [op |-> "set_tag_rational", tag |-> tag, res |-> Panic]
            /\ UNCHANGED rat
       ELSE LET success == EngineSetRational(tag, numer, denom)
            IN  /\ rat' = IF success = 1
                          THEN [rat EXCEPT ![tag] = <<numer, denom>>]
                          ELSE rat
                /\ last' = [op |-> "set_tag_rational", tag |-> tag,
                            res |-> int_bool_to_result(success)]
    /\ UNCHANGED <<lifeVars, extVars, strVars, arrVars>>

\* Metadata::get_tag_rational(&self, tag).
GetTagRational(tag) ==
    /\ last' = IF tag = NulTag
               THEN [op |-> "get_tag_rational", tag |-> tag, res |-> Panic]
               ELSE RationalResult("get_tag_rational", tag, EngineGetRational(tag))
    /\ UNCHANGED <<rat, lifeVars, extVars, strVars, arrVars>>

\* Metadata::get_exposure_time(&self).
GetExposureTime ==
    /\ last' = RationalResult("get_exposure_time", ExposureTimeTag,
                              EngineGetRational(ExposureTimeTag))
    /\ UNCHANGED <<rat, lifeVars, extVars, strVars, arrVars>>

\* Metadata::clear_tag(&self, tag) on a tag of the rational store.
ClearRationalTag(tag) ==
    /\ IF tag = NulTag
       THEN /\ last' = [op |-> "clear_tag", tag |-> tag, res |-> Panic]
            /\ UNCHANGED rat
       ELSE /\ rat' = IF tag \in ExifRatTags THEN [rat EXCEPT ![tag] = None] ELSE rat
            /\ last' = [op |-> "clear_tag", tag |-> tag,
                        res |-> IF tag \in ExifRatTags /\ rat[tag] # None
                                THEN "true" ELSE "false"]
    /\ UNCHANGED <<lifeVars, extVars, strVars, arrVars>>

RationalNext ==
    \/ \E tag \in RatTags, numer, denom \in Nums : SetTagRational(tag, numer, denom)
    \/ \E tag \in RatTags : GetTagRational(tag)
    \/ GetExposureTime
    \/ \E tag \in RatTags : ClearRationalTag(tag)

\* ------------------------------------------------------ string marshaling
\* The values a Rust &str argument can carry.
RustStrs == {b \in ByteStrings : Utf8Valid(b)}

StrTags == {"Iptc.Application2.Subject", "Exif.Image.DateTime"}
\* Besides the tags of the store: a name the engine does not know, and a name
\* with an interior zero byte.
UnknownTag == "Bogus.Tag"
StrTagArgs == StrTags \cup {UnknownTag, NulTag}

\* The handle was opened from a file: its string tags hold whatever bytes the
\* file holds.
StrInit ==
    /\ strTag \in [StrTags -> {Ptr(b) : b \in ByteStrings} \cup {Null}]
    /\ leaked = 0

\* gexiv2_metadata_get_tag_string: a newly allocated copy of the value, or null.
EngineGetTagString(tag) == IF tag \in StrTags THEN strTag[tag] ELSE Null

\* The body shared by get_tag_string and get_tag_interpreted_string:
\*   if c_str_val.is_null() { return Err(NoValue); }
\*   let value = CStr::from_ptr(c_str_val).to_str()?.to_string();
\*   libc::free(c_str_val);  Ok(value)
\* allocated/freed count the engine's string for this call.
FreeingStringResult(op, tag, c_str_val) ==
    IF c_str_val.null
    THEN [op |-> op, tag |-> tag, res |-> NoValue, c_str_val |-> c_str_val,
          allocated |-> 0, freed |-> 0]
    ELSE IF ~Utf8Valid(c_str_val.at)
    THEN \* the ? returns before libc::free
         [op |-> op, tag |-> tag, res |-> Utf8, c_str_val |-> c_str_val,
          allocated |-> 1, freed |-> 0]
    ELSE [op |-> op, tag |-> tag, res |-> "Ok", val |-> c_str_val.at,
          c_str_val |-> c_str_val, allocated |-> 1, freed |-> 1]

\* Metadata::get_tag_string(&self, tag).
GetTagString(tag) ==
    /\ IF tag = NulTag
       THEN /\ last' = [op |-> "get_tag_string", tag |-> tag, res |-> Panic,
                        allocated |-> 0, freed |-> 0]
            /\ UNCHANGED leaked
       ELSE LET r == FreeingStringResult("get_tag_string", tag, EngineGetTagString(tag))
            IN  /\ leaked + r.allocated - r.freed <= MaxLeaked
                /\ leaked' = leaked + r.allocated - r.freed
                /\ last' = r
    /\ UNCHANGED <<strTag, lifeVars, extVars, tagVars, arrVars>>

\* Metadata::get_tag_interpreted_string(&self, tag).  interp: the display form
\* the engine answers for a tag that is present.
GetTagInterpretedString(tag, interp) ==
    /\ IF tag = NulTag
       THEN /\ last' = [op |-> "get_tag_interpreted_string", tag |-> tag, res |-> Panic,
                        allocated |-> 0, freed |-> 0]
            /\ UNCHANGED leaked
       ELSE LET c_str_val == IF EngineGetTagString(tag).null THEN Null ELSE Ptr(interp)
                r == FreeingStringResult("get_tag_interpreted_string", tag, c_str_val)
            IN  /\ leaked + r.allocated - r.freed <= MaxLeaked
                /\ leaked' = leaked + r.allocated - r.freed
                /\ last' = r
    /\ UNCHANGED <<strTag, lifeVars, extVars, tagVars, arrVars>>

\* Metadata::set_tag_string(&self, tag, value).  valueNul: the value holds an
\* interior zero byte.
SetTagString(tag, value, valueNul) ==
    /\ IF tag = NulTag \/ valueNul
       THEN /\ last' = [op |-> "set_tag_string", tag |-> tag, res |-> Panic]
            /\ UNCHANGED strTag
       ELSE LET success == IF tag \in StrTags THEN 1 ELSE 0
            IN  /\ strTag' = IF success = 1 THEN [strTag EXCEPT ![tag] = Ptr(value)]
                              ELSE strTag
                /\ last' = [op |-> "set_tag_string", tag |-> tag,
                            res |-> int_bool_to_result(success)]
    /\ UNCHANGED <<leaked, lifeVars, extVars, tagVars, arrVars>>

\* Metadata::has_tag(&self, tag).
HasTag(tag) ==
    /\ last' = IF tag = NulTag THEN [op |-> "has_tag", tag |-> tag, res |-> Panic]
               ELSE [op |-> "has_tag", tag |-> tag,
                     res |-> IF ~EngineGetTagString(tag).null THEN "true" ELSE "false"]
    /\ UNCHANGED <<lifeVars, otherVars>>

\* Metadata::clear_tag(&self, tag) on a tag of the string store.
ClearTag(tag) ==
    /\ IF tag = NulTag
       THEN /\ last' = [op |-> "clear_tag", tag |-> tag, res |-> Panic]
            /\ UNCHANGED strTag
       ELSE /\ strTag' = IF tag \in StrTags THEN [strTag EXCEPT ![tag] = Null] ELSE strTag
            /\ last' = [op |-> "clear_tag", tag |-> tag,
                        res |-> IF ~EngineGetTagString(tag).null THEN "true" ELSE "false"]
    /\ UNCHANGED <<leaked, lifeVars, extVars, tagVars, arrVars>>

StringNext ==
    \/ \E tag \in StrTagArgs : HasTag(tag)
    \/ \E tag \in StrTagArgs : ClearTag(tag)
    \/ \E tag \in StrTagArgs : GetTagString(tag)
    \/ \E tag \in StrTagArgs, interp \in ByteStrings : GetTagInterpretedString(tag, interp)
    \/ \E tag \in StrTagArgs, value \in RustStrs, valueNul \in BOOLEAN :
         SetTagString(tag, value, valueNul)

\* ------------------------------------------------------- array marshaling
\* An engine array is a spine of pointers ended by a null pointer; the model
\* keeps the entries before the terminator, each the bytes of one string.
ElemStrings == SeqsUpTo(Bytes, MaxElemLen)
Arrays == SeqsUpTo(ElemStrings, MaxArrLen)
RustStrArrays == {a \in Arrays : \A i \in 1..Len(a) : Utf8Valid(a[i])}

ArrInit == engineArr \in {Ptr(a) : a \in Arrays} \cup {Null}

\* free_array_of_pointers(list): libc::free on every entry up to the null
\* terminator, then on the spine.  frees counts the calls per allocation.
RECURSIVE FreeEntries(_, _, _)
FreeEntries(list, idx, elems) ==
    IF idx > Len(list) THEN elems
    ELSE FreeEntries(list, idx + 1, [elems EXCEPT ![idx] = @ + 1])

free_array_spine_only(list, frees) ==
    [spine |-> frees.spine + 1, elems |-> frees.elems]

free_array_of_pointers(list, frees) ==
    [spine |-> frees.spine + 1, elems |-> FreeEntries(list, 1, frees.elems)]

NoFrees(list) == [spine |-> 0, elems |-> [i \in 1..Len(list) |-> 0]]

\* The loop shared by get_exif_tags, get_xmp_tags, get_iptc_tags and
\* get_tag_multiple_strings (cur_offset counts from 1 here):
\*   while !(*c_vals.offset(cur_offset)).is_null() {
\*       match CStr::from_ptr(..).to_str() {
\*           Ok(v) => vals.push(v.to_string()),
\*           Err(e) => { free_array_of_pointers(c_vals); return Err(e.into()); } }
\*       cur_offset += 1; }
\*   free_array_of_pointers(c_vals);  Ok(vals)
RECURSIVE ArrayWalkKeepDecoded(_, _, _)
ArrayWalkKeepDecoded(c_vals, cur_offset, vals) ==
    IF cur_offset > Len(c_vals)
    THEN [res |-> "Ok", val |-> vals,
          frees |-> free_array_of_pointers(c_vals, NoFrees(c_vals))]
    ELSE IF Utf8Valid(c_vals[cur_offset])
    THEN ArrayWalkKeepDecoded(c_vals, cur_offset + 1, Append(vals, c_vals[cur_offset]))
    ELSE [res |-> "Ok", val |-> vals,
          frees |-> free_array_of_pointers(c_vals, NoFrees(c_vals))]

RECURSIVE ArrayWalk(_, _, _)
ArrayWalk(c_vals, cur_offset, vals) ==
    IF cur_offset > Len(c_vals)
    THEN [res |-> "Ok", val |-> vals,
          frees |-> free_array_of_pointers(c_vals, NoFrees(c_vals))]
    ELSE IF Utf8Valid(c_vals[cur_offset])
    THEN ArrayWalk(c_vals, cur_offset + 1, Append(vals, c_vals[cur_offset]))
    ELSE [res |-> Utf8,
          frees |-> free_array_of_pointers(c_vals, NoFrees(c_vals))]

TagListOps == {"get_exif_tags", "get_xmp_tags", "get_iptc_tags"}
ArrayOps == TagListOps \cup {"get_tag_multiple_strings"}

\* What reading *c_tags.offset(0) through a null c_tags can do: fault, or
\* read a word that is null (an empty list) or that points at arbitrary bytes.
NullArrayReads == {Segfault, "Ok", Utf8}

\* Metadata::get_exif_tags / get_xmp_tags / get_iptc_tags: no null check
\* before the loop.
GetTags(op) ==
    /\ ~crashed
    /\ IF engineArr.null
       THEN \E r \in NullArrayReads :
            /\ last' = IF r = "Ok"
                       THEN [op |-> op, called |-> TRUE, res |-> r, val |-> <<>>,
                             frees |-> NoFrees(<<>>)]
                       ELSE [op |-> op, called |-> TRUE, res |-> r, frees |-> NoFrees(<<>>)]
            /\ crashed' = (r = Segfault)
       ELSE /\ last' = [op |-> op, called |-> TRUE] @@ ArrayWalk(engineArr.at, 1, <<>>)
            /\ UNCHANGED crashed
    /\ UNCHANGED <<ctx, freeCalls, handle, bufs, slice, previews, imgLive, badCall,
                   engineArr, tagVars, strVars, extVars>>

\* Metadata::get_tag_multiple_strings(&self, tag).
GetTagMultipleStrings(tag) ==
    /\ ~crashed
    /\ last' = IF tag = NulTag
               THEN [op |-> "get_tag_multiple_strings", called |-> FALSE, res |-> Panic,
                     frees |-> NoFrees(<<>>)]
               ELSE IF engineArr.null
               THEN [op |-> "get_tag_multiple_strings", called |-> TRUE, res |-> NoValue,
                     frees |-> NoFrees(<<>>)]
               ELSE [op |-> "get_tag_multiple_strings", called |-> TRUE]
                        @@ ArrayWalk(engineArr.at, 1, <<>>)
    /\ UNCHANGED <<lifeVars, extVars, engineArr, tagVars, strVars>>

\* Metadata::set_tag_multiple_strings(&self, tag, values).  valueNul: one of
\* the values holds an interior zero byte.
SetTagMultipleStrings(tag, values, valueNul) ==
    /\ ~crashed
    /\ IF tag = NulTag \/ valueNul
       THEN /\ last' = [op |-> "set_tag_multiple_strings", res |-> Panic]
            /\ UNCHANGED engineArr
       ELSE LET success == IF tag = UnknownTag THEN 0 ELSE 1
            IN  /\ engineArr' = IF success = 1 THEN Ptr(values) ELSE engineArr
                /\ last' = [op |-> "set_tag_multiple_strings",
                            res |-> int_bool_to_result(success)]
    /\ UNCHANGED <<lifeVars, extVars, tagVars, strVars>>

ArrayTagArgs == {"Iptc.Application2.Keywords", UnknownTag, NulTag}

ArrayNext ==
    \/ \E op \in TagListOps : GetTags(op)
    \/ \E tag \in ArrayTagArgs : GetTagMultipleStrings(tag)
    \/ \E tag \in ArrayTagArgs, values \in RustStrArrays, valueNul \in BOOLEAN :
         SetTagMultipleStrings(tag, values, valueNul)

\* ------------------------------------------------------ numeric accessors
\* An optional entry of an engine store.
Absent == [present |-> FALSE]
Present(x) == [present |-> TRUE, v |-> x]

\* Rust's i32 and the engine's long (c_long), scaled to MaxIntBits and
\* MaxIntBits + 2 bits.
I32s == (0 - 2^(MaxIntBits - 1))..(2^(MaxIntBits - 1) - 1)
Longs == (0 - 2^(MaxIntBits + 1))..(2^(MaxIntBits + 1) - 1)
\* value as libc::c_long: sign extension, the value is kept.
AsLong(value) == value
\* long as i32: the low bits, read as a signed number.
AsI32Saturating(long) ==
    IF long >= 2^(MaxIntBits - 1) THEN 2^(MaxIntBits - 1) - 1
    ELSE IF long < 0 - 2^(MaxIntBits - 1) THEN 0 - 2^(MaxIntBits - 1)
    ELSE long

AsI32(long) ==
    LET low == long % 2^MaxIntBits
    IN  IF low >= 2^(MaxIntBits - 1) THEN low - 2^MaxIntBits ELSE low

LongTags == {"Exif.Photo.MaxApertureValue"}
LongTagArgs == LongTags \cup {UnknownTag, NulTag}

\* gexiv2_metadata_get_tag_long: the tag's value, 0 when there is none.
EngineGetTagLong(tag) ==
    IF tag \in LongTags /\ longTag[tag].present THEN longTag[tag].v ELSE 0

\* Metadata::get_tag_numeric(&self, tag) -> i32.
GetTagNumeric(tag) ==
    /\ last' = IF tag = NulTag
               THEN [op |-> "get_tag_numeric", tag |-> tag, res |-> Panic]
               ELSE [op |-> "get_tag_numeric", tag |-> tag, res |-> "i32",
                     val |-> AsI32(EngineGetTagLong(tag))]
    /\ UNCHANGED <<lifeVars, otherVars>>

\* Metadata::set_tag_numeric(&self, tag, value).
SetTagNumeric(tag, value) ==
    /\ IF tag = NulTag
       THEN /\ last' = [op |-> "set_tag_numeric", tag |-> tag, res |-> Panic]
            /\ UNCHANGED longTag
       ELSE LET success == IF tag \in LongTags THEN 1 ELSE 0
            IN  /\ longTag' = IF success = 1
                              THEN [longTag EXCEPT ![tag] = Present(AsLong(value))]
                              ELSE longTag
                /\ last' = [op |-> "set_tag_numeric", tag |-> tag, value |-> value,
                            res |-> int_bool_to_result(success)]
    /\ UNCHANGED <<lifeVars, tagVars, strVars, arrVars, mstr, mtype, gps, xmpNs, moreVars>>

\* The handle was opened from a file: its numeric tag holds any long or none,
\* and at most one of its rational tags holds a pair.
NumInit ==
    /\ longTag \in [LongTags -> {Absent} \cup {Present(x) : x \in Longs}]
    /\ \E pair \in {None} \cup (Nums \X Nums) :
         rat = [t \in ExifRatTags |-> IF t = ExposureTimeTag THEN pair ELSE None]

NumericNext ==
    \/ \E tag \in LongTagArgs : GetTagNumeric(tag)
    \/ \E tag \in LongTagArgs, value \in I32s : SetTagNumeric(tag, value)
    \/ \E tag \in RatTags : GetTagRational(tag)

\* ---------------------------------------------------------- GPS information
\* Coordinates stand for f64 values; 0 is among them.
Coords == {-1, 0, 1}
GpsValues == Coords \X Coords \X Coords

\* gexiv2_metadata_get_gps_info(self.raw, lon, lat, alt): 0 when the metadata
\* holds no GPS information (the out-parameters keep the 0.0 they were
\* initialised with), otherwise non-zero with the three values written.
EngineGetGpsInfo ==
    IF gps.present
    THEN [ok |-> 1, lon |-> gps.v[1], lat |-> gps.v[2], alt |-> gps.v[3]]
    ELSE [ok |-> 0, lon |-> 0, lat |-> 0, alt |-> 0]

\* match .. { 0 => None, _ => Some(GpsInfo { longitude: *lon, latitude: *lat,
\* altitude: *alt }) }
GpsResultIgnoresFlag(got) ==
    [res |-> "Some", longitude |-> got.lon, latitude |-> got.lat, altitude |-> got.alt]

GpsResult(got) ==
    IF got.ok = 0 THEN [res |-> None]
    ELSE [res |-> "Some", longitude |-> got.lon, latitude |-> got.lat, altitude |-> got.alt]

\* Metadata::get_gps_info(&self).  prev: the operation issued before it.
GetGpsInfo ==
    /\ last' = [op |-> "get_gps_info", prev |-> last.op] @@ GpsResult(EngineGetGpsInfo)
    /\ UNCHANGED <<lifeVars, otherVars>>

\* Metadata::set_gps_info(&self, gps).  success: what the engine answers.
SetGpsInfo(value, success) ==
    /\ gps' = IF success = 1 THEN Present(value) ELSE gps
    /\ last' = [op |-> "set_gps_info", res |-> int_bool_to_result(success)]
    /\ UNCHANGED <<lifeVars, tagVars, strVars, arrVars, mstr, mtype, longTag, xmpNs, moreVars>>

\* Metadata::delete_gps_info(&self).
DeleteGpsInfo ==
    /\ gps' = Absent
    /\ last' = [op |-> "delete_gps_info", res |-> "Ok"]
    /\ UNCHANGED <<lifeVars, tagVars, strVars, arrVars, mstr, mtype, longTag, xmpNs, moreVars>>

\* The handle was opened from a file with or without GPS tags.
GpsInit == gps \in {Absent} \cup {Present(v) : v \in GpsValues}

GpsNext ==
    \/ GetGpsInfo
    \/ \E value \in GpsValues, success \in {0, 1} : SetGpsInfo(value, success)
    \/ DeleteGpsInfo

\* ---------------------------------------------------------- XMP namespaces
\* The namespaces a program registers, each under its own prefix, and a name
\* with an interior zero byte.
NulName == "http://ns.example\\0.org/"
XmpNamespaces ==
    {<<"http://creativecommons.org/ns#/", "cc">>, <<"http://ns.example.org/a/", "a">>,
     <<"http://ns.example.org/b/", "b">>, <<"http://ns.example.org/c/", "c">>}
XmpArgs == XmpNamespaces \cup {<<NulName, "nul">>}
Registered(table, name) == \E ns \in table : ns[1] = name

\* gexiv2_metadata_register_xmp_namespace: 0 for a namespace that is already
\* registered, which it leaves as it is; otherwise it adds the namespace and
\* answers 1.
EngineRegisterXmpNamespace(name, prefix) == IF Registered(xmpNs, name) THEN 0 ELSE 1

\* The namespace call that came just before: its name, the namespace it was
\* given (none for unregister_all_xmp_namespaces) and how it ended.
PrevCall ==
    [op |-> last.op, res |-> last.res,
     name |-> IF "name" \in DOMAIN last THEN last.name ELSE ""]

\* register_xmp_namespace(name, prefix).  before: the table before the call;
\* prev: the call before this one.
RegisterXmpNamespace(name, prefix) ==
    /\ IF name = NulName
       THEN /\ last' = [op |-> "register_xmp_namespace", name |-> name, res |-> Panic,
                        before |-> xmpNs, prev |-> PrevCall]
            /\ UNCHANGED xmpNs
       ELSE LET success == EngineRegisterXmpNamespace(name, prefix)
            IN  /\ xmpNs' = IF success = 1 THEN xmpNs \cup {<<name, prefix>>} ELSE xmpNs
                /\ last' = [op |-> "register_xmp_namespace", name |-> name,
                            res |-> int_bool_to_result(success), before |-> xmpNs,
                            prev |-> PrevCall]
    /\ UNCHANGED <<lifeVars, tagVars, strVars, arrVars, mstr, mtype, longTag, gps, moreVars>>

\* unregister_xmp_namespace(name): the engine answers 0 for a namespace that
\* is not registered.
UnregisterXmpNamespaceSkipsEngine(name) ==
    /\ last' = [op |-> "unregister_xmp_namespace", name |-> name, res |-> "Ok",
                before |-> xmpNs]
    /\ UNCHANGED xmpNs
    /\ UNCHANGED <<lifeVars, tagVars, strVars, arrVars, mstr, mtype, longTag, gps, moreVars>>

UnregisterXmpNamespace(name) ==
    /\ IF name = NulName
       THEN /\ last' = [op |-> "unregister_xmp_namespace", name |-> name, res |-> Panic,
                        before |-> xmpNs]
            /\ UNCHANGED xmpNs
       ELSE LET success == IF Registered(xmpNs, name) THEN 1 ELSE 0
            IN  /\ xmpNs' = {ns \in xmpNs : ns[1] # name}
                /\ last' = [op |-> "unregister_xmp_namespace", name |-> name,
                            res |-> int_bool_to_result(success), before |-> xmpNs]
    /\ UNCHANGED <<lifeVars, tagVars, strVars, arrVars, mstr, mtype, longTag, gps, moreVars>>

\* unregister_all_xmp_namespaces().
UnregisterAllXmpNamespaces ==
    /\ xmpNs' = {}
    /\ last' = [op |-> "unregister_all_xmp_namespaces", res |-> "Ok", before |-> xmpNs]
    /\ UNCHANGED <<lifeVars, tagVars, strVars, arrVars, mstr, mtype, longTag, gps, moreVars>>

XmpNext ==
    \/ \E ns \in XmpArgs : RegisterXmpNamespace(ns[1], ns[2])
    \/ \E ns \in XmpArgs : UnregisterXmpNamespace(ns[1])
    \/ UnregisterAllXmpNamespaces

\* ------------------------------------- media type and tag information getters
\* get_tag_type: the arms of its match on the engine's type name;
\* _ => Ok(TagType::Unknown).
TagTypeNames ==
    {"Byte", "Ascii", "Short", "Long", "Rational", "SByte", "Undefined", "SShort",
     "SLong", "SRational", "Float", "Double", "Ifd", "String", "Date", "Time",
     "Comment", "Directory", "XmpText", "XmpAlt", "XmpBag", "XmpSeq", "LangAlt", "Invalid"}
TagTypeOfName ==
    [n \in TagTypeNames |->
        CASE n = "Byte" -> "UnsignedByte"
          [] n = "Ascii" -> "AsciiString"
          [] n = "Short" -> "UnsignedShort"
          [] n = "Long" -> "UnsignedLong"
          [] n = "Rational" -> "UnsignedRational"
          [] n = "SByte" -> "SignedByte"
          [] n = "Undefined" -> "Undefined"
          [] n = "SShort" -> "SignedShort"
          [] n = "SLong" -> "SignedLong"
          [] n = "SRational" -> "SignedRational"
          [] n = "Float" -> "TiffFloat"
          [] n = "Double" -> "TiffDouble"
          [] n = "Ifd" -> "TiffIfd"
          [] n = "String" -> "String"
          [] n = "Date" -> "Date"
          [] n = "Time" -> "Time"
          [] n = "Comment" -> "Comment"
          [] n = "Directory" -> "Directory"
          [] n = "XmpText" -> "XmpText"
          [] n = "XmpAlt" -> "XmpAlt"
          [] n = "XmpBag" -> "XmpBag"
          [] n = "XmpSeq" -> "XmpSeq"
          [] n = "LangAlt" -> "LangAlt"
          [] n = "Invalid" -> "Invalid"]
TagType(v) == [tagtype |-> v]
TagTypeOfStrSLongAsLong(t) ==
    IF t.kind = "text" /\ t.s \in TagTypeNames
    THEN TagType(TagTypeOfName[IF t.s = "SLong" THEN "Long" ELSE t.s])
    ELSE TagType("Unknown")

TagTypeOfStr(t) ==
    IF t.kind = "text" /\ t.s \in TagTypeNames THEN TagType(TagTypeOfName[t.s])
    ELSE TagType("Unknown")
OwnedTagType(r) == IF r.res = "Ok" THEN [val |-> TagTypeOfStr(r.str)] @@ r ELSE r

\* Metadata::get_media_type(&self).
MetadataGetMediaType(h, ptr) ==
    /\ ~crashed
    /\ Open(h)
    /\ EngineCall(h)
    /\ last' = [op |-> "Metadata::get_media_type"] @@ OwnedMediaType(StrResult(ptr))
    /\ UNCHANGED <<ctx, freeCalls, handle, bufs, slice, previews, imgLive, crashed, otherVars>>

\* get_tag_label(tag), get_tag_description(tag), get_tag_type(tag): free
\* functions; ptr is what the engine's table answers for the tag.
InfoTagArgs == {"Iptc.Application2.Subject", NulTag}
\* What gexiv2_metadata_get_tag_type can answer: any engine string, each of
\* the type names among them.
TagTypePtrs == StrPtrs \cup {Ptr(Text(n)) : n \in TagTypeNames}
GetTagLabel(tag, ptr) ==
    /\ last' = IF tag = NulTag THEN [op |-> "get_tag_label", tag |-> tag, res |-> Panic]
               ELSE [op |-> "get_tag_label", tag |-> tag] @@ OwnedString(StrResult(ptr))
    /\ UNCHANGED <<lifeVars, otherVars>>

GetTagDescription(tag, ptr) ==
    /\ last' = IF tag = NulTag THEN [op |-> "get_tag_description", tag |-> tag, res |-> Panic]
               ELSE [op |-> "get_tag_description", tag |-> tag] @@ OwnedString(StrResult(ptr))
    /\ UNCHANGED <<lifeVars, otherVars>>

GetTagType(tag, ptr) ==
    /\ last' = IF tag = NulTag THEN [op |-> "get_tag_type", tag |-> tag, res |-> Panic]
               ELSE [op |-> "get_tag_type", tag |-> tag] @@ OwnedTagType(StrResult(ptr))
    /\ UNCHANGED <<lifeVars, otherVars>>

\* One handle opened from a file that holds a preview and at most one string
\* tag, with the preview's descriptor in scope.
InfoInit ==
    /\ ctx = [c \in Ctxs |-> IF c = 1 THEN "live" ELSE "unalloc"]
    /\ freeCalls = [c \in Ctxs |-> 0]
    /\ handle = [h \in Handles |-> IF h = 1 THEN [st |-> "open", raw |-> 1]
                                   ELSE [st |-> "none", raw |-> 0]]
    /\ bufs = [b \in Bufs |-> "unalloc"]
    /\ slice = [b \in Bufs |-> 0]
    /\ previews = {[metadata |-> 1, raw |-> 1]}
    /\ imgLive = 0
    /\ badCall = FALSE
    /\ crashed = FALSE
    /\ \E c_str_val \in {Ptr(b) : b \in ByteStrings} \cup {Null} :
         strTag = [t \in StrTags |-> IF t = "Exif.Image.DateTime" THEN c_str_val ELSE Null]
    /\ leaked = 0

StringAccessors ==
    {"get_tag_string", "get_tag_interpreted_string", "Metadata::get_media_type",
     "PreviewImage::get_media_type", "PreviewImage::get_extension", "get_tag_label",
     "get_tag_description", "get_tag_type"}

InfoNext ==
    \/ \E tag \in StrTagArgs : GetTagString(tag)
    \/ \E tag \in StrTagArgs, interp \in ByteStrings : GetTagInterpretedString(tag, interp)
    \/ \E h \in Handles, ptr \in StrPtrs : MetadataGetMediaType(h, ptr)
    \/ \E d \in previews, op \in StrGetters, ptr \in StrPtrs : PreviewGet(d, op, ptr)
    \/ \E tag \in InfoTagArgs, ptr \in StrPtrs : GetTagLabel(tag, ptr)
    \/ \E tag \in InfoTagArgs, ptr \in StrPtrs : GetTagDescription(tag, ptr)
    \/ \E tag \in InfoTagArgs, ptr \in TagTypePtrs : GetTagType(tag, ptr)

\* -------------------------------------------------- media type round trips
\* The strings tried: the recognized ones, near misses, and short strings
\* with a non-ASCII character or none at all.
OtherTexts == {"image/webp", "IMAGE/PNG", "image/png;q=1", "application/octet-stream"}
MediaStrs ==
    {Text(x) : x \in RecognizedStrs \cup OtherTexts}
        \cup {Raw(b) : b \in {e \in SeqsUpTo(Bytes, MaxElemLen + 1) : Utf8Valid(e)}}
\* MediaType is a public enum: a caller can build Other around any string.
MediaTypes == {Named(v) : v \in Variants} \cup {Other(x) : x \in MediaStrs}

MediaInit == mstr \in MediaStrs /\ mtype \in MediaTypes
MediaIdle == mstr = Raw(<<>>) /\ mtype = Other(Raw(<<>>))

\* let t = MediaType::from(s): s0 is the string converted; when s had just
\* been produced by String::from(&t0), round is set and t0 kept.
MediaTypeFrom ==
    /\ mtype' = MediaTypeFromStr(mstr)
    /\ last' = [op |-> "MediaType::from", res |-> "Ok", s0 |-> mstr,
                round |-> (last.op = "String::from"),
                t0 |-> IF last.op = "String::from" THEN last.t0 ELSE mtype']
    /\ UNCHANGED <<mstr, longTag, gps, xmpNs, lifeVars, tagVars, strVars, arrVars, moreVars>>

\* let s = String::from(&t): t0 is the value converted; when t had just been
\* produced by MediaType::from(s0), round is set and s0 kept.
StringFrom ==
    /\ mstr' = StringFromMediaType(mtype)
    /\ last' = [op |-> "String::from", res |-> "Ok", t0 |-> mtype,
                round |-> (last.op = "MediaType::from"),
                s0 |-> IF last.op = "MediaType::from" THEN last.s0 ELSE mstr']
    /\ UNCHANGED <<mtype, longTag, gps, xmpNs, lifeVars, tagVars, strVars, arrVars, moreVars>>

MediaNext == MediaTypeFrom \/ StringFrom

\* ----------------------------------------------------------- tags by domain
\* The tags of the three metadata domains that the context of the open handle
\* can hold, in the order in which the engine lists them, and the values a
\* program sets: "A" and U+00E9.
ExifTags == {"Exif.Image.DateTime", "Exif.Image.Model"}
XmpTags == {"Xmp.dc.Title"}
IptcTags == {"Iptc.Application2.Subject"}
DomainTags == [Exif |-> ExifTags, Xmp |-> XmpTags, Iptc |-> IptcTags]
Domains == DOMAIN DomainTags
StoreTags == ExifTags \cup XmpTags \cup IptcTags
StoreTagArgs == StoreTags \cup {UnknownTag, NulTag}
TagOrder ==
    <<"Exif.Image.DateTime", "Exif.Image.Model", "Iptc.Application2.Subject",
      "Xmp.dc.Title">>
TagValues == {<<65>>, <<195, 169>>}

\* The handle was opened from an image without metadata (the doc examples'
\* minipng).
StoreInit == store = [t \in StoreTags |-> Null]
TagsOpen == ~crashed /\ Open(1)

\* gexiv2_metadata_has_tag, gexiv2_metadata_get_tag_string (a newly allocated
\* copy of the value, or null) and gexiv2_metadata_has_exif / _has_xmp /
\* _has_iptc on a store.
EngineHasTag(st, tag) == IF tag \in StoreTags /\ ~st[tag].null THEN 1 ELSE 0
EngineStoreGetTagString(st, tag) == IF tag \in StoreTags THEN st[tag] ELSE Null
EngineHasDomain(st, d) == IF \E t \in DomainTags[d] : ~st[t].null THEN 1 ELSE 0

\* gexiv2_metadata_get_exif_tags / _get_xmp_tags / _get_iptc_tags: a newly
\* allocated null-terminated array of the names of the domain's tags; the
\* model keeps the entries before the terminator.
EngineGetTags(st, d) ==
    LET names == SelectSeq(TagOrder, LAMBDA t : t \in DomainTags[d] /\ ~st[t].null)
    IN  Ptr([i \in 1..Len(names) |-> Text(names[i])])

\* gexiv2_metadata_clear_exif / _clear_xmp / _clear_iptc, and
\* gexiv2_metadata_clear, on a store.
StoreWithout(st, tags) == [t \in StoreTags |-> IF t \in tags THEN Null ELSE st[t]]

\* A Rust bool as a result.
Bool(b) == IF b THEN "true" ELSE "false"

\* has_tag and clear_tag: gexiv2_metadata_has_tag(..) == 1.
HasTagResultInverted(st, tag) == EngineHasTag(st, tag) = 0

HasTagResult(st, tag) == EngineHasTag(st, tag) = 1

\* has_exif, has_xmp, has_iptc: gexiv2_metadata_has_exif(self.raw) == 1.
HasDomainResult(st, d) == EngineHasDomain(st, d) = 1

\* What get_tag_string answers on a store.
StoreGetTagStringResult(st, tag) ==
    FreeingStringResult("get_tag_string", tag, EngineStoreGetTagString(st, tag))

\* The loop of get_exif_tags, get_xmp_tags and get_iptc_tags over the
\* engine's array of names (cur_offset counts from 1 here): every entry that
\* is valid text is pushed, the first that is not ends the call with the
\* decode error.
RECURSIVE TagNamesWalk(_, _, _)
TagNamesWalk(c_tags, cur_offset, tags) ==
    IF cur_offset > Len(c_tags) THEN [res |-> "Ok", val |-> tags]
    ELSE IF StrValid(c_tags[cur_offset])
    THEN TagNamesWalk(c_tags, cur_offset + 1, Append(tags, c_tags[cur_offset].s))
    ELSE [res |-> Utf8]

TagNamesResultFromSecond(c_tags) == TagNamesWalk(c_tags.at, 2, <<>>)

TagNamesResult(c_tags) == TagNamesWalk(c_tags.at, 1, <<>>)

HasOp == [Exif |-> "has_exif", Xmp |-> "has_xmp", Iptc |-> "has_iptc"]
ClearOp == [Exif |-> "clear_exif", Xmp |-> "clear_xmp", Iptc |-> "clear_iptc"]
TagsOp == [Exif |-> "get_exif_tags", Xmp |-> "get_xmp_tags", Iptc |-> "get_iptc_tags"]

\* Metadata::set_tag_string(&self, tag, value) on the open handle.  valueNul:
\* the value holds an interior zero byte.  before: the store before the call.
StoreSetTagString(tag, value, valueNul) ==
    /\ TagsOpen
    /\ IF tag = NulTag \/ valueNul
       THEN /\ last' = [op |-> "set_tag_string", tag |-> tag, res |-> Panic,
                        before |-> store]
            /\ UNCHANGED store
       ELSE LET success == IF tag \in StoreTags THEN 1 ELSE 0
            IN  /\ store' = IF success = 1 THEN [store EXCEPT ![tag] = Ptr(value)]
                            ELSE store
                /\ last' = [op |-> "set_tag_string", tag |-> tag, value |-> value,
                            res |-> int_bool_to_result(success), before |-> store]
    /\ UNCHANGED <<lifeVars, tagVars, strVars, arrVars, mstr, mtype, longTag, gps,
                   xmpNs, initVars>>

\* Metadata::has_tag(&self, tag) on the open handle.
StoreHasTag(tag) ==
    /\ TagsOpen
    /\ last' = IF tag = NulTag
               THEN [op |-> "has_tag", tag |-> tag, res |-> Panic, before |-> store]
               ELSE [op |-> "has_tag", tag |-> tag, res |-> Bool(HasTagResult(store, tag)),
                     before |-> store]
    /\ UNCHANGED <<lifeVars, otherVars>>

\* Metadata::get_tag_string(&self, tag) on the open handle.
StoreGetTagString(tag) ==
    /\ TagsOpen
    /\ last' = IF tag = NulTag
               THEN [op |-> "get_tag_string", tag |-> tag, res |-> Panic,
                     before |-> store]
               ELSE [before |-> store] @@ StoreGetTagStringResult(store, tag)
    /\ UNCHANGED <<lifeVars, otherVars>>

\* Metadata::clear_tag(&self, tag) on the open handle: the engine removes the
\* tag and answers whether it was there.
StoreClearTag(tag) ==
    /\ TagsOpen
    /\ IF tag = NulTag
       THEN /\ last' = [op |-> "clear_tag", tag |-> tag, res |-> Panic, before |-> store]
            /\ UNCHANGED store
       ELSE /\ store' = StoreWithout(store, {tag})
            /\ last' = [op |-> "clear_tag", tag |-> tag, res |-> Bool(HasTagResult(store, tag)),
                        before |-> store]
    /\ UNCHANGED <<lifeVars, tagVars, strVars, arrVars, mstr, mtype, longTag, gps,
                   xmpNs, initVars>>

\* Metadata::clear(&self).
Clear ==
    /\ TagsOpen
    /\ store' = StoreWithout(store, StoreTags)
    /\ last' = [op |-> "clear", res |-> "Ok", before |-> store]
    /\ UNCHANGED <<lifeVars, tagVars, strVars, arrVars, mstr, mtype, longTag, gps,
                   xmpNs, initVars>>

\* Metadata::clear_exif / clear_xmp / clear_iptc.
ClearDomainClearsAll(d) ==
    /\ TagsOpen
    /\ store' = StoreWithout(store, StoreTags)
    /\ last' = [op |-> ClearOp[d], res |-> "Ok", before |-> store]
    /\ UNCHANGED <<lifeVars, tagVars, strVars, arrVars, mstr, mtype, longTag, gps,
                   xmpNs, initVars>>

ClearDomain(d) ==
    /\ TagsOpen
    /\ store' = StoreWithout(store, DomainTags[d])
    /\ last' = [op |-> ClearOp[d], res |-> "Ok", before |-> store]
    /\ UNCHANGED <<lifeVars, tagVars, strVars, arrVars, mstr, mtype, longTag, gps,
                   xmpNs, initVars>>

\* Metadata::has_exif / has_xmp / has_iptc.
HasDomain(d) ==
    /\ TagsOpen
    /\ last' = [op |-> HasOp[d], res |-> Bool(HasDomainResult(store, d)), before |-> store]
    /\ UNCHANGED <<lifeVars, otherVars>>

\* Metadata::get_exif_tags / get_xmp_tags / get_iptc_tags on the open handle,
\* whose engine array is never null.
GetDomainTags(d) ==
    /\ TagsOpen
    /\ last' = [op |-> TagsOp[d], before |-> store] @@ TagNamesResult(EngineGetTags(store, d))
    /\ UNCHANGED <<lifeVars, otherVars>>

TagsNext ==
    \/ \E tag \in StoreTagArgs, value \in TagValues, valueNul \in BOOLEAN :
         StoreSetTagString(tag, value, valueNul)
    \/ \E tag \in StoreTagArgs : StoreHasTag(tag)
    \/ \E tag \in StoreTagArgs : StoreGetTagString(tag)
    \/ \E tag \in StoreTagArgs : StoreClearTag(tag)
    \/ Clear
    \/ \E d \in Domains : ClearDomain(d)
    \/ \E d \in Domains : HasDomain(d)
    \/ \E d \in Domains : GetDomainTags(d)
    \/ \E h \in Handles, pathNul \in BOOLEAN, answer \in GErrorAnswers :
         MetadataSaveToFile(h, pathNul, answer)

\* ----------------------------------------------------------- initialization
\* Threads that call initialize() (lib.rs) or the tests' test_setup(), which
\* runs initialize() under the static INIT: Once.  once is the state of INIT;
\* engineInit counts the runs of gexiv2_initialize: all that began, those that
\* began inside INIT.call_once, and all that ended.
Threads == 1..MaxThreads
ThreadInit == thread = [t \in Threads |-> [at |-> "idle", calls |-> 0]]
OnceInit == once = "incomplete"
EngineInitInit == engineInit = [began |-> 0, gated |-> 0, ended |-> 0]
InitializeInit == OnceInit /\ ThreadInit /\ EngineInitInit

CanCall(t) == thread[t].at = "idle" /\ thread[t].calls < MaxInitCalls
Calling(t, at) == [thread EXCEPT ![t] = [at |-> at, calls |-> @.calls + 1]]
At(t, at) == [thread EXCEPT ![t].at = at]

\* initialize(): int_bool_to_result(gexiv2_initialize()).  The call enters the
\* engine's routine with no gate in front of it.
InitializeCall(t) ==
    /\ CanCall(t)
    /\ thread' = Calling(t, "initialize")
    /\ engineInit' = [engineInit EXCEPT !.began = @ + 1]
    /\ last' = [op |-> "initialize", res |-> "running", thread |-> t]
    /\ UNCHANGED <<once, store, lifeVars, tagVars, strVars, arrVars, mstr, mtype, longTag,
                   gps, xmpNs>>

\* The engine's routine ends and initialize() returns its answer.
InitializeReturn(t, success) ==
    /\ thread[t].at = "initialize"
    /\ thread' = At(t, "idle")
    /\ engineInit' = [engineInit EXCEPT !.ended = @ + 1]
    /\ last' = [op |-> "initialize", res |-> int_bool_to_result(success), thread |-> t]
    /\ UNCHANGED <<once, store, lifeVars, tagVars, strVars, arrVars, mstr, mtype, longTag,
                   gps, xmpNs>>

\* test_setup(): INIT.call_once(..).  Once::call_once returns at once when
\* the Once is complete, runs the closure when it is incomplete, blocks while
\* another thread runs it, and panics when it is poisoned.
CallOnceNoGate(t) ==
    /\ CanCall(t)
    /\ once' = "running"
    /\ thread' = Calling(t, "closure")
    /\ last' = [op |-> "test_setup", res |-> "running", thread |-> t]
    /\ UNCHANGED <<engineInit, store, lifeVars, tagVars, strVars, arrVars, mstr, mtype,
                   longTag, gps, xmpNs>>

CallOnce(t) ==
    /\ CanCall(t)
    /\ once' = IF once = "incomplete" THEN "running" ELSE once
    /\ thread' = CASE once = "incomplete" -> Calling(t, "closure")
                   [] once = "running" -> Calling(t, "waiting")
                   [] once = "complete" -> Calling(t, "idle")
                   [] once = "poisoned" -> Calling(t, "panicked")
    /\ last' = [op |-> "test_setup", thread |-> t,
                res |-> CASE once = "complete" -> "Ok"
                          [] once = "poisoned" -> Panic
                          [] OTHER -> "running"]
    /\ UNCHANGED <<engineInit, store, lifeVars, tagVars, strVars, arrVars, mstr, mtype,
                   longTag, gps, xmpNs>>

\* The closure of test_setup calls rexiv2::initialize().
ClosureInitialize(t) ==
    /\ thread[t].at = "closure"
    /\ thread' = At(t, "gated initialize")
    /\ engineInit' = [engineInit EXCEPT !.began = @ + 1, !.gated = @ + 1]
    /\ last' = [op |-> "test_setup", res |-> "running", thread |-> t]
    /\ UNCHANGED <<once, store, lifeVars, tagVars, strVars, arrVars, mstr, mtype, longTag,
                   gps, xmpNs>>

\* initialize() returns inside the closure: .expect(..) panics on Err, which
\* poisons the Once; otherwise the Once becomes complete and test_setup returns.
ClosureReturn(t, success) ==
    /\ thread[t].at = "gated initialize"
    /\ engineInit' = [engineInit EXCEPT !.ended = @ + 1]
    /\ LET res == int_bool_to_result(success)
       IN  /\ once' = IF res = "Ok" THEN "complete" ELSE "poisoned"
           /\ thread' = At(t, IF res = "Ok" THEN "idle" ELSE "panicked")
           /\ last' = [op |-> "test_setup", res |-> IF res = "Ok" THEN "Ok" ELSE Panic,
                       thread |-> t]
    /\ UNCHANGED <<store, lifeVars, tagVars, strVars, arrVars, mstr, mtype, longTag, gps,
                   xmpNs>>

\* A thread blocked in call_once wakes when the running closure is over.
CallOnceWake(t) ==
    /\ thread[t].at = "waiting"
    /\ once \in {"complete", "poisoned"}
    /\ thread' = At(t, IF once = "complete" THEN "idle" ELSE "panicked")
    /\ last' = [op |-> "test_setup", res |-> IF once = "complete" THEN "Ok" ELSE Panic,
                thread |-> t]
    /\ UNCHANGED <<once, engineInit, store, lifeVars, tagVars, strVars, arrVars, mstr,
                   mtype, longTag, gps, xmpNs>>

InitializeNext ==
    \/ \E t \in Threads : InitializeCall(t)
    \/ \E t \in Threads, success \in {0, 1} : InitializeReturn(t, success)
    \/ \E t \in Threads : CallOnce(t)
    \/ \E t \in Threads : ClosureInitialize(t)
    \/ \E t \in Threads, success \in {0, 1} : ClosureReturn(t, success)
    \/ \E t \in Threads : CallOnceWake(t)

\* ------------------------------------------------- further engine state
NumIdle == longTag = [t \in LongTags |-> Absent]
GpsIdle == gps = Absent
XmpIdle == xmpNs = {}
StoreIdle == StoreInit
InitIdle == InitializeInit
MoreIdle == StoreIdle /\ InitIdle
ExtIdle == MediaIdle /\ NumIdle /\ GpsIdle /\ XmpIdle /\ MoreIdle

\* --------------------------------------------------------- specifications
\* Outside its own specification each part of the state rests: no string
\* tags, no array answer.
StrIdle == strTag = [t \in StrTags |-> Null] /\ leaked = 0
ArrIdle == engineArr = Null
Started == last = [op |-> "init", res |-> "Ok"]

Init == LifeInit /\ TagInit /\ StrIdle /\ ArrIdle /\ ExtIdle /\ Started
InitString == LifeInit /\ TagInit /\ StrInit /\ ArrIdle /\ ExtIdle /\ Started
InitArray == LifeInit /\ TagInit /\ StrIdle /\ ArrInit /\ ExtIdle /\ Started
InitMedia ==
    /\ LifeInit /\ TagInit /\ StrIdle /\ ArrIdle /\ Started
    /\ MediaInit /\ NumIdle /\ GpsIdle /\ XmpIdle /\ MoreIdle
Next == LifeNext
Spec == Init /\ [][Next]_vars
SpecPreview == Init /\ [][PreviewNext]_vars
SpecRational == Init /\ [][RationalNext]_vars
SpecString == InitString /\ [][StringNext]_vars
SpecArray == InitArray /\ [][ArrayNext]_vars
SpecMedia == InitMedia /\ [][MediaNext]_vars
InitInfo == InfoInit /\ TagInit /\ ArrIdle /\ ExtIdle /\ Started
SpecInfo == InitInfo /\ [][InfoNext]_vars
InitNumeric ==
    /\ LifeInit /\ StrIdle /\ ArrIdle /\ Started
    /\ NumInit /\ MediaIdle /\ GpsIdle /\ XmpIdle /\ MoreIdle
SpecNumeric == InitNumeric /\ [][NumericNext]_vars
InitGps ==
    /\ LifeInit /\ TagInit /\ StrIdle /\ ArrIdle /\ Started
    /\ GpsInit /\ MediaIdle /\ NumIdle /\ XmpIdle /\ MoreIdle
SpecGps == InitGps /\ [][GpsNext]_vars
SpecXmp == Init /\ [][XmpNext]_vars
OpenInit ==
    /\ ctx = [c \in Ctxs |-> IF c = 1 THEN "live" ELSE "unalloc"]
    /\ freeCalls = [c \in Ctxs |-> 0]
    /\ handle = [h \in Handles |-> IF h = 1 THEN [st |-> "open", raw |-> 1]
                                   ELSE [st |-> "none", raw |-> 0]]
    /\ bufs = [b \in Bufs |-> "unalloc"]
    /\ slice = [b \in Bufs |-> 0]
    /\ previews = {}
    /\ imgLive = 0
    /\ badCall = FALSE
    /\ crashed = FALSE
InitTags ==
    /\ OpenInit /\ TagInit /\ StrIdle /\ ArrIdle /\ Started
    /\ StoreInit /\ MediaIdle /\ NumIdle /\ GpsIdle /\ XmpIdle /\ InitIdle
SpecTags == InitTags /\ [][TagsNext]_vars
SpecInitialize == Init /\ [][InitializeNext]_vars

\* ------------------------------------------------------------------ claims

\* C1: for every tag and every pair (n, d) with d # 0, once set_tag_rational
\* stored n/d, get_tag_rational(tag) returns Some(r) with numerator exactly n
\* and denominator exactly d: the pair is never reduced.
C1_RationalReadBackExact ==
    (/\ last.op = "get_tag_rational"
     /\ last.tag \in ExifRatTags
     /\ rat[last.tag] # None
     /\ rat[last.tag][2] # 0)
        => /\ last.res = "Some"
           /\ last.num = rat[last.tag][1]
           /\ last.den = rat[last.tag][2]

\* C2: for every pair (n, d) with d # 0, once set_tag_rational stored n/d
\* under Exif.Photo.ExposureTime, get_exposure_time() returns Some(r) with
\* numerator exactly n and denominator exactly d.
C2_ExposureTimeReadBackExact ==
    (/\ last.op = "get_exposure_time"
     /\ rat[ExposureTimeTag] # None
     /\ rat[ExposureTimeTag][2] # 0)
        => /\ last.res = "Some"
           /\ last.num = rat[ExposureTimeTag][1]
           /\ last.den = rat[ExposureTimeTag][2]

\* C11: for every string S, recognized or not, MediaType::from(S) converted
\* back with String::from yields exactly S.
C11_StrRoundTrip ==
    (last.op = "String::from" /\ last.round) => mstr = last.s0

\* The round trip of a string that differs from a recognized one in case only.
C11_Witness ==
    /\ last.op = "String::from"
    /\ last.round
    /\ last.s0 = Text("IMAGE/PNG")
    /\ mtype = Other(Text("IMAGE/PNG"))
    /\ mstr = Text("IMAGE/PNG")

\* C12 as claimed: for every MediaType value T, every Other(s) included,
\* String::from(&T) converted back with MediaType::from yields T.
C12_TypeRoundTrip ==
    (last.op = "MediaType::from" /\ last.round) => mtype = last.t0

\* C12 amended: the same for every T that is a named variant or Other(s) with
\* s not one of the 15 recognized strings; Other(s) with s recognized comes
\* back as the variant named by s.
C12_TypeRoundTripAmended ==
    (last.op = "MediaType::from" /\ last.round)
        => IF last.t0.variant = "Other" /\ last.t0.s.kind = "text"
                /\ last.t0.s.s \in RecognizedStrs
           THEN mtype = Named(VariantOfStr[last.t0.s.s])
           ELSE mtype = last.t0

\* Round trips of a named variant and of an Other around an unrecognized string.
C12_Witness ==
    /\ last.op = "MediaType::from"
    /\ last.round
    /\ last.t0 \in {Named("Jpeg"), Other(Text("image/webp"))}
    /\ mtype = last.t0

\* C13: when a call of the GError idiom (the three constructors,
\* Metadata::save_to_file, set_thumbnail_from_file) fails and the engine set
\* the error object, the operation returns Err(Internal(Some(msg))) with msg
\* the engine's message when that message is valid text, and
\* Err(Internal(None)) when it is not.
C13_ErrorMessageDecoded ==
    (/\ last.op \in GErrorOps
     /\ "answer" \in DOMAIN last
     /\ last.answer.ok = 0
     /\ ~last.answer.err.null)
        => IF Utf8Valid(last.answer.err.at)
           THEN last.res = InternalSome /\ last.msg = last.answer.err.at
           ELSE last.res = InternalNone

\* set_thumbnail_from_file failed on an open handle with a two-byte message.
C13_Witness ==
    /\ last.op = "set_thumbnail_from_file"
    /\ last.res = InternalSome
    /\ last.answer.err = Ptr(<<195, 169>>)
    /\ last.msg = <<195, 169>>

\* C14: when a call of the GError idiom reports failure and leaves the error
\* out-parameter null, the operation returns Err(Internal(None)) and reads no
\* message through the absent error object.
C14_NullErrorIsInternalNone ==
    (/\ last.op \in GErrorOps
     /\ "answer" \in DOMAIN last
     /\ last.answer.ok = 0
     /\ last.answer.err.null)
        => last.res = InternalNone

\* C15: get_exif_tags, get_xmp_tags, get_iptc_tags and
\* get_tag_multiple_strings map a null array pointer from the engine to
\* Err(NoValue), without reading through the pointer.
C15_NullArrayIsNoValue ==
    (last.op \in ArrayOps /\ last.called /\ engineArr.null) => last.res = NoValue

\* The engine's bytes were valid text, and what the returned value holds:
\* a String holds its bytes, a MediaType the string MediaType::Other keeps or
\* the variant stands for.
BytesValid(l) ==
    IF l.op \in {"get_tag_string", "get_tag_interpreted_string"}
    THEN Utf8Valid(l.c_str_val.at) ELSE StrValid(l.c_str_val.at)
ContentOf(l) ==
    IF l.op \in {"Metadata::get_media_type", "PreviewImage::get_media_type"}
    THEN StringFromMediaType(l.val) ELSE l.val

\* C16 as claimed: each of the eight string-returning accessors returns
\* Err(NoValue) on a null pointer, the decode error on bytes that are not
\* valid text, and otherwise Ok with a value whose content equals the
\* engine's bytes.
C16_StringAccessorResults ==
    (last.op \in StringAccessors /\ "c_str_val" \in DOMAIN last)
        => IF last.c_str_val.null THEN last.res = NoValue
           ELSE IF ~BytesValid(last) THEN last.res = Utf8
           ELSE last.res = "Ok" /\ ContentOf(last) = last.c_str_val.at

\* C16 amended: the same, except that get_tag_type returns Ok with the
\* TagType its match gives for the name, TagType::Unknown for every name it
\* does not list, and so does not keep the engine's bytes.
C16_StringAccessorResultsAmended ==
    (last.op \in StringAccessors /\ "c_str_val" \in DOMAIN last)
        => IF last.c_str_val.null THEN last.res = NoValue
           ELSE IF ~BytesValid(last) THEN last.res = Utf8
           ELSE /\ last.res = "Ok"
                /\ IF last.op = "get_tag_type"
                   THEN last.val = TagTypeOfStr(last.c_str_val.at)
                   ELSE ContentOf(last) = last.c_str_val.at

\* Metadata::get_media_type on an open handle whose engine answers image/jpeg.
C16_Witness ==
    /\ last.op = "Metadata::get_media_type"
    /\ last.c_str_val = Ptr(Text("image/jpeg"))
    /\ last.res = "Ok"
    /\ last.val = Named("Jpeg")

C18_NoAbortOnInteriorNul ==
    (last.op \in {"has_tag", "clear_tag", "get_tag_string", "set_tag_string"}
         /\ last.tag = NulTag)
        => last.res \in {"false", NoValue, Utf8, InternalNone, InternalSome}

\* C19: get_gps_info returns None exactly when the engine reports no GPS
\* information, and otherwise Some(GpsInfo) carrying the engine's three
\* values; on a handle without GPS tags and after delete_gps_info it returns
\* None, never Some of three zeroes.
C19_GpsAbsenceIsNone ==
    last.op = "get_gps_info"
        => /\ last.res = None <=> ~gps.present
           /\ gps.present =>
                /\ last.res = "Some"
                /\ <<last.longitude, last.latitude, last.altitude>> = gps.v
           /\ last.prev = "delete_gps_info" => last.res = None

\* get_gps_info right after delete_gps_info.
C19_Witness ==
    /\ last.op = "get_gps_info"
    /\ last.prev = "delete_gps_info"
    /\ ~gps.present
    /\ last.res = None

C21_UnregisterThenRegisterAgain ==
    /\ (last.op = "unregister_xmp_namespace" /\ last.name # NulName)
           => /\ last.res = IF Registered(last.before, last.name) THEN "Ok" ELSE InternalNone
              /\ ~Registered(xmpNs, last.name)
              /\ \A ns \in last.before : ns[1] # last.name => ns \in xmpNs
    /\ last.op = "unregister_all_xmp_namespaces" => xmpNs = {}
    /\ (last.op = "register_xmp_namespace" /\ last.name # NulName)
           => /\ (last.prev.op = "unregister_xmp_namespace" /\ last.prev.res = "Ok"
                     /\ last.prev.name = last.name)
                    => (last.res = "Ok" /\ Registered(xmpNs, last.name))
              /\ last.prev.op = "unregister_all_xmp_namespaces"
                    => (last.res = "Ok" /\ Registered(xmpNs, last.name))

\* A namespace was registered again right after it was unregistered with
\* success, while another namespace stayed registered throughout.
C21_Witness ==
    /\ last.op = "register_xmp_namespace"
    /\ last.name = "http://creativecommons.org/ns#/"
    /\ last.prev = [op |-> "unregister_xmp_namespace", res |-> "Ok",
                    name |-> "http://creativecommons.org/ns#/"]
    /\ last.res = "Ok"
    /\ Cardinality(last.before) = 1
    /\ Cardinality(xmpNs) = 2

\* C22: on the open handle, in the state a successful set_tag_string(tag, v)
\* leaves, has_tag(tag) answers true and get_tag_string(tag) answers Ok(v);
\* clear_tag(tag) returns true exactly when the tag was present right before
\* the call and leaves a state in which has_tag(tag) answers false; in the
\* state clear() leaves, has_tag answers false for every tag.
C22_SetThenHasGetClear ==
    /\ (last.op = "set_tag_string" /\ last.res = "Ok")
           => /\ HasTagResult(store, last.tag)
              /\ StoreGetTagStringResult(store, last.tag).res = "Ok"
              /\ StoreGetTagStringResult(store, last.tag).val = last.value
    /\ (last.op = "clear_tag" /\ last.tag # NulTag)
           => /\ last.res = Bool(last.tag \in StoreTags /\ ~last.before[last.tag].null)
              /\ ~HasTagResult(store, last.tag)
    /\ last.op = "clear" => \A tag \in StoreTags \cup {UnknownTag} : ~HasTagResult(store, tag)
    /\ (last.op = "has_tag" /\ last.tag # NulTag)
           => last.res = Bool(last.tag \in StoreTags /\ ~store[last.tag].null)

\* clear_tag removed a tag that held U+00E9 and answered true, while a tag of
\* another domain stayed set.
C22_Witness ==
    /\ last.op = "clear_tag"
    /\ last.tag = "Xmp.dc.Title"
    /\ last.res = "true"
    /\ last.before["Xmp.dc.Title"] = Ptr(<<195, 169>>)
    /\ store["Xmp.dc.Title"] = Null
    /\ store["Exif.Image.DateTime"] = Ptr(<<65>>)

C24_TagListsMatchStore ==
    /\ \A d \in Domains :
        LET r == TagNamesResult(EngineGetTags(store, d))
        IN  /\ r.res = "Ok"
            /\ {r.val[i] : i \in 1..Len(r.val)} = {t \in DomainTags[d] : ~store[t].null}
            /\ \A i, j \in 1..Len(r.val) : r.val[i] = r.val[j] => i = j
            /\ HasDomainResult(store, d) = (Len(r.val) > 0)
            /\ last.op = TagsOp[d] => (last.res = r.res /\ last.val = r.val)
            /\ last.op = HasOp[d] => last.res = Bool(HasDomainResult(store, d))

\* get_exif_tags listed two Exif tags while an XMP tag was set and no IPTC tag.
C24_Witness ==
    /\ last.op = "get_exif_tags"
    /\ last.val = <<"Exif.Image.DateTime", "Exif.Image.Model">>
    /\ ~store["Xmp.dc.Title"].null
    /\ store["Iptc.Application2.Subject"].null

\* C25: a Metadata::save_to_file that reaches the engine is made on an open
\* handle; it returns Ok(()) when the engine reports success and
\* Err(Internal(..)) when the engine reports failure, and either way the
\* handle is open afterwards and holds the tags it held before.
C25_SaveKeepsHandleAndTags ==
    [][\A h \in Handles, answer \in GErrorAnswers :
          MetadataSaveToFile(h, FALSE, answer)
              => /\ Open(h)
                 /\ handle'[h] = handle[h]
                 /\ ~crashed'
                 /\ store' = store
                 /\ last'.res \in (IF answer.ok = 1 THEN {"Ok"}
                                   ELSE {InternalNone, InternalSome})]_vars

\* C26: over any calls of initialize and test_setup, from one thread or
\* interleaved across several, gexiv2_initialize runs at most once, and a call
\* that has returned did so only after that run had ended.
C26_InitializedOnce ==
    /\ engineInit.began <= 1
    /\ (last.op \in {"initialize", "test_setup"} /\ last.res = "Ok") => engineInit.ended = 1

\* C26 for test_setup alone: over any calls of initialize and test_setup,
\* gexiv2_initialize runs at most once through test_setup, no second run
\* begins through it once INIT is complete, and a test_setup that has returned
\* did so only after the run made through it had ended and INIT was complete;
\* every call of initialize itself begins a run of gexiv2_initialize of its own.
C26_TestSetupOnce ==
    /\ engineInit.gated <= 1
    /\ once = "complete" => (engineInit.gated = 1 /\ engineInit.ended >= 1)
    /\ (last.op = "test_setup" /\ last.res = "Ok")
           => (once = "complete" /\ \A t \in Threads : thread[t].at # "gated initialize")
    /\ Cardinality({t \in Threads : thread[t].at \in {"closure", "gated initialize"}})
           <= 1
    /\ (last.op = "initialize" /\ last.res = "running")
           => (thread[last.thread].at = "initialize"
               /\ engineInit.began > engineInit.ended)

\* Two threads called test_setup, the second while the first was inside the
\* closure; the second has returned after waiting, and one run was made.
C26_Witness ==
    /\ last = [op |-> "test_setup", res |-> "Ok", thread |-> 2]
    /\ thread[1] = [at |-> "idle", calls |-> 1]
    /\ thread[2] = [at |-> "idle", calls |-> 1]
    /\ engineInit = [began |-> 1, gated |-> 1, ended |-> 1]

\* C27: get_tag_rational (given a tag name that is a valid C string) and
\* get_exposure_time return a value, Some or None, whatever pair the engine
\* holds, a denominator of 0 included: they never panic.
C27_RationalGettersNeverAbort ==
    (last.op \in {"get_tag_rational", "get_exposure_time"} /\ last.tag # NulTag)
        => last.res \in {None, "Some"}

\* C28: get_tag_type answers Err(NoValue) for a null type name, a TagType
\* variant other than Unknown for each of the 24 names it lists, a different
\* one for each name, and Ok(TagType::Unknown) for every other name: never
\* another error.
C28_TagTypeTotal ==
    (last.op = "get_tag_type" /\ last.tag # NulTag)
        => IF last.c_str_val.null THEN last.res = NoValue
           ELSE /\ last.res = "Ok"
                /\ IF last.c_str_val.at \in {Text(n) : n \in TagTypeNames}
                   THEN /\ last.val # TagType("Unknown")
                        /\ \A n \in TagTypeNames :
                               Text(n) # last.c_str_val.at => TagTypeOfStr(Text(n)) # last.val
                   ELSE last.val = TagType("Unknown")

\* C28 with the decode error: as C28, but a type name that is not valid UTF-8
\* gives the decode error, and only the other names that are valid text give
\* Ok(TagType::Unknown).
C28_TagTypeTotalAmended ==
    (last.op = "get_tag_type" /\ last.tag # NulTag)
        => IF last.c_str_val.null THEN last.res = NoValue
           ELSE IF ~StrValid(last.c_str_val.at) THEN last.res = Utf8
           ELSE /\ last.res = "Ok"
                /\ IF last.c_str_val.at \in {Text(n) : n \in TagTypeNames}
                   THEN /\ last.val # TagType("Unknown")
                        /\ \A n \in TagTypeNames :
                               Text(n) # last.c_str_val.at => TagTypeOfStr(Text(n)) # last.val
                   ELSE last.val = TagType("Unknown")

\* get_tag_type was given the engine's name "SLong" and answered SignedLong.
C28_Witness ==
    /\ last.op = "get_tag_type"
    /\ last.tag = "Iptc.Application2.Subject"
    /\ last.c_str_val = Ptr(Text("SLong"))
    /\ last.res = "Ok"
    /\ last.val = TagType("SignedLong")

\* C29: a PreviewImage::save_to_file that reaches the engine's write returns
\* Ok(()) exactly when the byte count the engine reports equals the size
\* get_size gives for the descriptor, and Err(Internal(None)) for every other
\* count: the failure sentinel, a short write, a count above the size.
C29_PreviewSaveChecksSize ==
    (last.op = "PreviewImage::save_to_file" /\ last.res # Panic)
        => /\ last.res \in {"Ok", InternalNone}
           /\ (last.res = "Ok") = (last.written = last.size)

\* A short write: the engine wrote fewer bytes than the size and did not
\* report failure, and save_to_file answered Err(Internal(None)).
C29_Witness ==
    /\ last.op = "PreviewImage::save_to_file"
    /\ last.res = InternalNone
    /\ last.written >= 0
    /\ last.written < last.size

\* C30: in the state a successful set_tag_numeric(tag, v) leaves, the engine
\* holds v itself as its long and get_tag_numeric(tag) answers v, for every v
\* of i32; get_tag_numeric always answers an i32 that differs from the
\* engine's long by a multiple of 2^32 (2^MaxIntBits here), so a long outside
\* the range of i32 reads back as its low bits and never as an error.
C30_NumericRoundTrip ==
    /\ (last.op = "set_tag_numeric" /\ last.res = "Ok")
           => /\ longTag[last.tag] = Present(last.value)
              /\ AsI32(EngineGetTagLong(last.tag)) = last.value
    /\ (last.op = "get_tag_numeric" /\ last.tag # NulTag)
           => /\ last.res = "i32"
              /\ last.val \in I32s
              /\ (last.val - EngineGetTagLong(last.tag)) % 2^MaxIntBits = 0

\* The least i32 was set with success and is what the engine holds.
C30_Witness ==
    /\ last.op = "set_tag_numeric"
    /\ last.res = "Ok"
    /\ last.value = 0 - 2^(MaxIntBits - 1)
    /\ longTag[last.tag] = Present(last.value)

\* C3: when the engine's load step fails in new_from_path, new_from_buffer or
\* new_from_app1_segment, the context the constructor allocated is released
\* before the error is returned: the number of live native contexts after a
\* failed open equals the number before it.
C3_FailedOpenReleasesContext ==
    (last.op \in Constructors /\ last.res \in {InternalNone, InternalSome})
        => Cardinality(LiveCtxs) = last.live

\* C4: every successfully opened handle releases its native context exactly
\* once, when it goes out of scope, never twice; distinct handles own distinct
\* contexts; and no engine call is issued on a context after its release.
C4_ContextReleasedExactlyOnce ==
    /\ ~badCall
    /\ \A c \in Ctxs : freeCalls[c] <= 1
    /\ \A h \in Handles :
         /\ handle[h].st = "open" =>
              ctx[handle[h].raw] = "live" /\ freeCalls[handle[h].raw] = 0
         /\ handle[h].st = "dropped" =>
              ctx[handle[h].raw] = "freed" /\ freeCalls[handle[h].raw] = 1
    /\ \A h1, h2 \in Handles :
         (h1 # h2 /\ handle[h1].st # "none" /\ handle[h2].st # "none")
             => handle[h1].raw # handle[h2].raw

\* One handle has been dropped, another is open and has just been used.
C4_Witness ==
    \E h1, h2 \in Handles :
        /\ handle[h1].st = "dropped"
        /\ freeCalls[handle[h1].raw] = 1
        /\ Open(h2)
        /\ last.op = "Metadata::save_to_file"
        /\ last.res = "Ok"

\* C5: the buffer get_thumbnail obtains from the engine is released when the
\* returned thumbnail goes out of scope: no buffer whose thumbnail is out of
\* scope remains allocated.
C5_ThumbnailBufferReleased ==
    \A b \in Bufs : slice[b] = 0 => bufs[b] # "live"

\* C6: get_tag_string and get_tag_interpreted_string release the string the
\* engine allocated exactly once on every path on which the engine answered a
\* non-null pointer, the decode-error path included, and release nothing when
\* the pointer is null: a call frees as many strings as the engine allocated
\* for it, and none stays allocated.
C6_EngineStringReleasedOnce ==
    /\ last.op \in {"get_tag_string", "get_tag_interpreted_string"}
         => last.freed = last.allocated
    /\ leaked = 0

\* C7: whenever the engine answers get_exif_tags, get_xmp_tags, get_iptc_tags
\* or get_tag_multiple_strings with a non-null array, the spine and every
\* entry up to the terminator have each been released exactly once when the
\* call returns, whether every entry decoded or one failed to.
C7_ArrayReleasedExactlyOnce ==
    (last.op \in ArrayOps /\ last.called /\ ~engineArr.null)
        => /\ last.frees.spine = 1
           /\ DOMAIN last.frees.elems = 1..Len(engineArr.at)
           /\ \A i \in 1..Len(engineArr.at) : last.frees.elems[i] = 1

\* A decode failure on the first of two entries: the entry after the failing
\* one is released as well.
C7_Witness ==
    /\ last.op \in ArrayOps
    /\ last.res = Utf8
    /\ ~engineArr.null
    /\ Len(engineArr.at) = 2
    /\ ~Utf8Valid(engineArr.at[1])
    /\ Utf8Valid(engineArr.at[2])
    /\ last.frees.elems = <<1, 1>>

\* C8: for the same four getters, if any entry of a non-null engine array is
\* not valid text the call returns Rexiv2Error::Utf8 and no list; if every
\* entry is valid text it returns Ok with exactly the engine's entries, in
\* order and in number.
C8_ArrayDecodeAtomic ==
    (last.op \in ArrayOps /\ last.called /\ ~engineArr.null)
        => IF \E i \in 1..Len(engineArr.at) : ~Utf8Valid(engineArr.at[i])
           THEN last.res = Utf8 /\ "val" \notin DOMAIN last
           ELSE last.res = "Ok" /\ last.val = engineArr.at

\* A decode failure on the second entry, after the first one had decoded.
C8_Witness ==
    /\ last.op \in ArrayOps
    /\ last.res = Utf8
    /\ ~engineArr.null
    /\ Len(engineArr.at) = 2
    /\ Utf8Valid(engineArr.at[1])
    /\ Len(engineArr.at[1]) > 0
    /\ ~Utf8Valid(engineArr.at[2])
    /\ "val" \notin DOMAIN last

\* C9: every call of PreviewImage::get_data or PreviewImage::save_to_file
\* derives one transient image object and releases it exactly once, on every
\* path; between calls no transient image object is live.
C9_TransientImageReleased ==
    /\ imgLive = 0
    /\ last.op \in {"PreviewImage::get_data", "PreviewImage::save_to_file"}
         => last.derived = 1 /\ last.released = 1

\* C10: in every reachable state each PreviewImage descriptor in scope has an
\* open parent handle with a live context, and every operation issued on a
\* descriptor found its parent open.
C10_PreviewParentOpen ==
    /\ \A d \in previews : ParentLive(d)
    /\ last.op \in PreviewOps => last.parentLive

\* A descriptor is in scope and was just used, after another handle was dropped.
C10_Witness ==
    /\ \E d \in previews : ParentLive(d)
    /\ last.op = "PreviewImage::get_data"
    /\ \E h \in Handles : handle[h].st = "dropped"
====
